---- MODULE Spec2Model ----
(***************************************************************************)
(* Tank venting calculator (API 2000, 5th/6th/7th editions).               *)
(*                                                                         *)
(* The calculation engine is a pipeline of pure functions; this module     *)
(* models them as operators and the orchestrator `calculate` as a process  *)
(* that walks through its five steps.                                      *)
(*                                                                         *)
(* Source versions.  The source tree carries several revisions of two      *)
(* files.  The revision modelled is the one the test suites exercise:      *)
(*   computeNormalVenting     src/unnamed/part_014  (weighted process      *)
(*                            outbreathing; tests in src/unnamed/part_007) *)
(*   computeEmergencyVenting  src/lib/calculations/emergencyVenting.ts     *)
(*                            (edition-independent; tests in               *)
(*                            src/__tests__/emergencyVenting.test.ts)      *)
(*                                                                         *)
(* Numbers.  The source computes in IEEE doubles; the model computes in    *)
(* fixed point with floor rounding.  Units:                                *)
(*   lengths                        mm                                     *)
(*   latitude, pressures, temperatures, stream flowrates, areas,           *)
(*   latent heat, heat-transfer coefficient          tenths                *)
(*   molecular mass, Y- and C-factor                 hundredths            *)
(*   conductivity                                    thousandths           *)
(*   tank volume                                     m3                    *)
(*   reduction factor R, environmental factor F      1/10000               *)
(*   venting flows (process, thermal, total, vent)   thousandths of Nm3/h  *)
(*   heat input Q                                    W                     *)
(* An optional field that is absent holds `undefined`.                     *)
(***************************************************************************)
EXTENDS Integers, Sequences, FiniteSets, TLC

\* ------------------------------------------------------------------------
\* Arithmetic helpers
\* ------------------------------------------------------------------------

undefined == -1000000

\* The double NaN.
NaN == -2000000

Max(a, b) == IF a >= b THEN a ELSE b

Min(a, b) == IF a <= b THEN a ELSE b

\* floor(a * b / c) without forming a*b (c > 0).  With a = qa*c + ra and
\* b = qb*c + rb:  a*b = c*(qa*b + ra*qb) + ra*rb.
MulDiv(a, b, c) ==
  LET qa == a \div c
      ra == a % c
      qb == b \div c
      rb == b % c
  IN  qa * b + ra * qb + ((ra * rb) \div c)

\* floor(sqrt(n)) by bisection on [lo, hi]
RECURSIVE SqrtSearch(_, _, _)
SqrtSearch(n, lo, hi) ==
  IF lo >= hi THEN lo
  ELSE LET mid == (lo + hi + 1) \div 2
       IN  IF mid * mid <= n THEN SqrtSearch(n, mid, hi)
                             ELSE SqrtSearch(n, lo, mid - 1)

sqrt(n) == SqrtSearch(n, 0, 46340)

\* ------------------------------------------------------------------------
\* Constants (src/unnamed/part_011)
\* ------------------------------------------------------------------------

HEXANE_DEFAULTS ==
  [latentHeat |-> 3349, relievingTemperature |-> 156, molecularMass |-> 8617]

FLASH_POINT_THRESHOLD == 378

BOILING_POINT_THRESHOLD == 1490

CAPACITY_WARNING_M3 == 30000

WETTED_AREA_HEIGHT_CAP_MM == 9144

CONE_ROOF_SLOPE == 12

LATITUDE_BAND_LOW == 420

LATITUDE_BAND_MID == 580

\* TankConfiguration (src/types/index.ts)
TankConfiguration ==
  {"BARE_METAL", "INSULATED_FULL", "INSULATED_PARTIAL", "CONCRETE",
   "WATER_APPLICATION", "DEPRESSURING", "UNDERGROUND", "EARTH_COVERED",
   "IMPOUNDMENT_AWAY", "IMPOUNDMENT"}

ApiEdition == {"5TH", "6TH", "7TH"}

FlashBoilingPointType == {"FP", "BP"}

\* FIXED_ENVIRONMENTAL_FACTORS without the entry for CONCRETE, which is then
\* looked up like an insulated configuration.
FIXED_ENVIRONMENTAL_FACTORS_withoutConcrete(config) ==
  CASE config = "BARE_METAL"        -> 10000
    [] config = "WATER_APPLICATION" -> 10000
    [] config = "DEPRESSURING"      -> 10000
    [] config = "UNDERGROUND"       -> 0
    [] config = "EARTH_COVERED"     -> 300
    [] config = "IMPOUNDMENT_AWAY"  -> 3000
    [] config = "IMPOUNDMENT"       -> 5000
    [] OTHER                        -> undefined

\* Partial record: the insulated configurations have no entry (undefined).
FIXED_ENVIRONMENTAL_FACTORS(config) ==
  CASE config = "BARE_METAL"        -> 10000
    [] config = "WATER_APPLICATION" -> 10000
    [] config = "DEPRESSURING"      -> 10000
    [] config = "UNDERGROUND"       -> 0
    [] config = "EARTH_COVERED"     -> 300
    [] config = "IMPOUNDMENT_AWAY"  -> 3000
    [] config = "IMPOUNDMENT"       -> 5000
    [] config = "CONCRETE"          -> 300
    [] OTHER                        -> undefined

\* ------------------------------------------------------------------------
\* Interpolation primitive (src/lib/lookups/interpolate.ts)
\* ------------------------------------------------------------------------

\* table.findIndex(([xi]) => xi > x), 1-based; 0 when no row qualifies
findIndex(x, table) ==
  IF \E i \in 1..Len(table) : table[i][1] > x
  THEN CHOOSE i \in 1..Len(table) :
         /\ table[i][1] > x
         /\ \A j \in 1..(i - 1) : ~(table[j][1] > x)
  ELSE 0

\* interpolate rejecting the single-row table as well.
interpolateThrows_singleRow(table) == Len(table) <= 1

\* interpolate throws exactly on the empty table
interpolateThrows(table) == Len(table) = 0

\* interpolate as a step lookup: the value of the row below, not interpolated.
interpolate_stepLookup(x, table) ==
  IF Len(table) = 1 THEN table[1][2]
  ELSE IF x <= table[1][1] THEN table[1][2]
  ELSE IF x >= table[Len(table)][1] THEN table[Len(table)][2]
  ELSE table[findIndex(x, table) - 1][2]

\* interpolate starting each segment from the value of its upper row.
interpolate_fromUpperRow(x, table) ==
  IF Len(table) = 1 THEN table[1][2]
  ELSE IF x <= table[1][1] THEN table[1][2]
  ELSE IF x >= table[Len(table)][1] THEN table[Len(table)][2]
  ELSE LET upperIdx == findIndex(x, table)
           lower    == table[upperIdx - 1]
           upper    == table[upperIdx]
       IN  upper[2] + MulDiv(upper[2] - lower[2], x - lower[1], upper[1] - lower[1])

\* interpolate extending the last segment beyond the last key.
interpolate_extrapolatesAbove(x, table) ==
  IF Len(table) = 1 THEN table[1][2]
  ELSE IF x <= table[1][1] THEN table[1][2]
  ELSE LET found    == findIndex(x, table)
           upperIdx == IF found = 0 THEN Len(table) ELSE found
           lower    == table[upperIdx - 1]
           upper    == table[upperIdx]
       IN  lower[2] + MulDiv(upper[2] - lower[2], x - lower[1], upper[1] - lower[1])

interpolate(x, table) ==
  IF Len(table) = 1 THEN table[1][2]
  ELSE IF x <= table[1][1] THEN table[1][2]
  ELSE IF x >= table[Len(table)][1] THEN table[Len(table)][2]
  ELSE LET upperIdx == findIndex(x, table)
           lower    == table[upperIdx - 1]
           upper    == table[upperIdx]
       IN  lower[2] + MulDiv(upper[2] - lower[2], x - lower[1], upper[1] - lower[1])

\* ------------------------------------------------------------------------
\* Math.pow, to fixed-point precision: exact for the exponents 0 and 1,
\* otherwise exact (rounded) at the anchors below and linear in between.
\* base in tenths, exponent in thousandths, result in hundredths.
\* ------------------------------------------------------------------------

PowAnchors(n) ==
  CASE n = 900 ->
         <<<<0, 0>>, <<1, 13>>, <<2, 23>>, <<3, 34>>, <<5, 54>>, <<7, 73>>,
           <<10, 100>>, <<14, 135>>, <<19, 178>>, <<25, 228>>, <<33, 293>>,
           <<43, 372>>, <<56, 471>>, <<73, 598>>, <<95, 758>>, <<124, 964>>,
           <<162, 1226>>, <<186, 1389>>, <<211, 1555>>, <<275, 1974>>,
           <<358, 2503>>, <<466, 3174>>, <<606, 4020>>, <<788, 5092>>,
           <<930, 5911>>, <<1025, 6451>>, <<1333, 8172>>, <<1733, 10349>>,
           <<2253, 13106>>, <<2600, 14910>>, <<2929, 16598>>, <<3808, 21020>>,
           <<4951, 26621>>, <<6437, 33714>>, <<8369, 42698>>, <<10880, 54071>>,
           <<14145, 68477>>, <<18389, 86717>>, <<23906, 109814>>,
           <<31078, 139062>>, <<40402, 176101>>, <<52523, 223005>>,
           <<68280, 282400>>, <<88765, 357617>>, <<115395, 452865>>,
           <<150014, 573480>>, <<190014, 709426>>, <<230014, 842517>>,
           <<270014, 973302>>, <<310014, 1102156>>, <<350014, 1229354>>,
           <<390014, 1355103>>, <<430014, 1479566>>, <<470014, 1602875>>>>
    [] n = 700 ->
         <<<<0, 0>>, <<1, 20>>, <<2, 32>>, <<3, 43>>, <<5, 62>>, <<7, 78>>,
           <<10, 100>>, <<14, 127>>, <<19, 157>>, <<25, 190>>, <<33, 231>>,
           <<43, 278>>, <<56, 334>>, <<73, 402>>, <<95, 484>>, <<124, 583>>,
           <<162, 703>>, <<186, 774>>, <<211, 845>>, <<275, 1017>>,
           <<358, 1224>>, <<466, 1472>>, <<606, 1769>>, <<788, 2126>>,
           <<930, 2387>>, <<1025, 2556>>, <<1333, 3072>>, <<1733, 3691>>,
           <<2253, 4435>>, <<2600, 4903>>, <<2929, 5330>>, <<3808, 6405>>,
           <<4951, 7696>>, <<6437, 9249>>, <<8369, 11114>>, <<10880, 13355>>,
           <<14145, 16048>>, <<18389, 19284>>, <<23906, 23172>>,
           <<31078, 27843>>, <<40402, 33457>>, <<52523, 40202>>,
           <<68280, 48306>>, <<88765, 58046>>, <<115395, 69748>>,
           <<150014, 83809>>, <<190014, 98889>>, <<230014, 113039>>,
           <<270014, 126465>>, <<310014, 139305>>, <<350014, 151656>>,
           <<390014, 163590>>, <<430014, 175161>>, <<470014, 186414>>>>
    [] n = 566 ->
         <<<<0, 0>>, <<1, 27>>, <<2, 40>>, <<3, 51>>, <<5, 68>>, <<7, 82>>,
           <<10, 100>>, <<14, 121>>, <<19, 144>>, <<25, 168>>, <<33, 197>>,
           <<43, 228>>, <<56, 265>>, <<73, 308>>, <<95, 358>>, <<124, 416>>,
           <<162, 484>>, <<186, 523>>, <<211, 562>>, <<275, 653>>,
           <<358, 758>>, <<466, 880>>, <<606, 1021>>, <<788, 1184>>,
           <<930, 1301>>, <<1025, 1374>>, <<1333, 1595>>, <<1733, 1850>>,
           <<2253, 2146>>, <<2600, 2327>>, <<2929, 2490>>, <<3808, 2889>>,
           <<4951, 3351>>, <<6437, 3888>>, <<8369, 4511>>, <<10880, 5233>>,
           <<14145, 6071>>, <<18389, 7043>>, <<23906, 8170>>, <<31078, 9478>>,
           <<40402, 10996>>>>
    [] n = 338 ->
         <<<<0, 0>>, <<1, 46>>, <<2, 58>>, <<3, 67>>, <<5, 79>>, <<7, 89>>,
           <<10, 100>>, <<14, 112>>, <<19, 124>>, <<25, 136>>, <<33, 150>>,
           <<43, 164>>, <<56, 179>>, <<73, 196>>, <<95, 214>>, <<124, 234>>,
           <<162, 256>>, <<186, 269>>, <<211, 280>>, <<275, 307>>,
           <<358, 335>>, <<466, 366>>, <<606, 400>>, <<788, 438>>,
           <<930, 463>>, <<1025, 478>>, <<1333, 523>>, <<1733, 571>>,
           <<2253, 624>>, <<2600, 655>>, <<2929, 682>>, <<3808, 745>>,
           <<4951, 814>>, <<6437, 890>>, <<8369, 972>>, <<10880, 1063>>,
           <<14145, 1161>>, <<18389, 1269>>, <<23906, 1387>>, <<31078, 1515>>,
           <<40402, 1656>>>>
    [] n = 820 ->
         <<<<0, 0>>, <<1, 15>>, <<2, 27>>, <<3, 37>>, <<5, 57>>, <<7, 75>>,
           <<10, 100>>, <<14, 132>>, <<19, 169>>, <<25, 212>>, <<33, 266>>,
           <<43, 331>>, <<56, 411>>, <<73, 510>>, <<95, 633>>, <<124, 788>>,
           <<162, 981>>, <<186, 1099>>, <<211, 1219>>, <<275, 1514>>,
           <<358, 1880>>, <<466, 2334>>, <<606, 2895>>, <<788, 3590>>,
           <<930, 4113>>, <<1025, 4454>>, <<1333, 5525>>, <<1733, 6852>>,
           <<2253, 8497>>, <<2600, 9556>>, <<2929, 10537>>, <<3808, 13067>>,
           <<4951, 16205>>, <<6437, 20097>>, <<8369, 24923>>, <<10880, 30905>>,
           <<14145, 38326>>, <<18389, 47527>>, <<23906, 58935>>,
           <<31078, 73082>>, <<40402, 90625>>>>

pow(base, n) ==
  IF n = 0 THEN 100
  ELSE IF n = 1000 THEN base * 10
  ELSE interpolate(base, PowAnchors(n))

\* ------------------------------------------------------------------------
\* Lookups
\* ------------------------------------------------------------------------

\* src/lib/lookups/yFactor.ts
getYFactor(latitude) ==
  IF latitude <= LATITUDE_BAND_LOW THEN 32
  ELSE IF latitude <= LATITUDE_BAND_MID THEN 25
  ELSE 20

\* src/unnamed/part_012
isLowVolatility(flashBoilingPointType, flashBoilingPoint) ==
  IF flashBoilingPoint = undefined THEN FALSE
  ELSE IF flashBoilingPointType = "FP" THEN flashBoilingPoint >= FLASH_POINT_THRESHOLD
  ELSE flashBoilingPoint >= BOILING_POINT_THRESHOLD

\* getCFactor counting a capacity of exactly 25 m3 as small.
getCFactor_smallAt25(latitude, flashBoilingPointType, flashBoilingPoint, capacityM3) ==
  LET lowVol    == isLowVolatility(flashBoilingPointType, flashBoilingPoint)
      smallTank == capacityM3 <= 25
  IN  IF latitude <= LATITUDE_BAND_LOW
      THEN (IF lowVol /\ smallTank THEN 400 ELSE 650)
      ELSE IF latitude <= LATITUDE_BAND_MID
      THEN (IF lowVol /\ smallTank THEN 300 ELSE 500)
      ELSE (IF lowVol /\ smallTank THEN 250 ELSE 400)

getCFactor(latitude, flashBoilingPointType, flashBoilingPoint, capacityM3) ==
  LET lowVol    == isLowVolatility(flashBoilingPointType, flashBoilingPoint)
      smallTank == capacityM3 < 25
  IN  IF latitude <= LATITUDE_BAND_LOW
      THEN (IF lowVol /\ smallTank THEN 400 ELSE 650)
      ELSE IF latitude <= LATITUDE_BAND_MID
      THEN (IF lowVol /\ smallTank THEN 300 ELSE 500)
      ELSE (IF lowVol /\ smallTank THEN 250 ELSE 400)

\* NORMAL_VENT_TABLE of the normal vent table module (src/unnamed/part_011,
\* lines 409-432).
\* Rows: <<capacity m3, inbreathing, outbreathing low-vol, outbreathing other>>,
\* values in thousandths of Nm3/h.
NORMAL_VENT_TABLE ==
  << <<10, 1690, 1010, 1690>>,
     <<20, 3380, 2020, 3380>>,
     <<100, 16900, 10100, 16900>>,
     <<200, 33800, 20300, 33800>>,
     <<300, 50400, 30400, 50400>>,
     <<500, 84400, 50700, 84500>>,
     <<700, 118000, 71000, 118000>>,
     <<1000, 169000, 101000, 169000>>,
     <<1500, 254000, 152000, 254000>>,
     <<2000, 338000, 203000, 338000>>,
     <<3000, 507000, 304000, 507000>>,
     <<3180, 537000, 322000, 537000>>,
     <<4000, 647000, 388000, 647000>>,
     <<5000, 787000, 472000, 787000>>,
     <<6000, 896000, 538000, 896000>>,
     <<10000, 1210000, 726000, 1210000>>,
     <<12000, 1345000, 807000, 1345000>>,
     <<14000, 1480000, 888000, 1480000>>,
     <<16000, 1615000, 969000, 1615000>>,
     <<18000, 1750000, 1047000, 1750000>>,
     <<25000, 2179000, 1307000, 2179000>>,
     <<30000, 2495000, 1497000, 2495000>> >>

\* buildColumn: the [capacity, value] sub-table of a column
NormalVentColumn(col) ==
  [i \in 1..Len(NORMAL_VENT_TABLE) |->
     <<NORMAL_VENT_TABLE[i][1], NORMAL_VENT_TABLE[i][col]>>]

normalVentInbreathing(capacityM3) == interpolate(capacityM3, NormalVentColumn(2))

normalVentOutbreathing(capacityM3, lowVol) ==
  interpolate(capacityM3, NormalVentColumn(IF lowVol THEN 3 ELSE 4))

\* src/lib/lookups/emergencyVentTable.ts
\* <<wetted area (tenths of m2), vent rate (thousandths of Nm3/h)>>
EMERGENCY_VENT_TABLE ==
  << <<20, 608000>>,      <<30, 913000>>,      <<90, 2738000>>,
     <<110, 3347000>>,    <<130, 3955000>>,    <<150, 4563000>>,
     <<170, 5172000>>,    <<190, 5780000>>,    <<220, 6217000>>,
     <<250, 6684000>>,    <<300, 7411000>>,    <<350, 8086000>>,
     <<400, 8721000>>,    <<450, 9322000>>,    <<500, 9895000>>,
     <<600, 10971000>>,   <<700, 11971000>>,   <<800, 12911000>>,
     <<900, 13801000>>,   <<1100, 15461000>>,  <<1300, 15751000>>,
     <<1500, 16532000>>,  <<1750, 17416000>>,  <<2000, 18220000>>,
     <<2300, 19102000>>,  <<2600, 19910000>> >>

emergencyVentTableLookup(wettedAreaM2) ==
  interpolate(wettedAreaM2, EMERGENCY_VENT_TABLE)

\* src/lib/lookups/fFactor.ts
\* <<conductance (tenths of W/m2K), F (1/10000)>>
F_FACTOR_TABLE ==
  << <<19, 250>>, <<23, 300>>, <<28, 375>>, <<38, 500>>,
     <<57, 750>>, <<114, 1500>>, <<227, 3000>> >>

\* conductance = k / (t/1000); k in thousandths, t in mm, result in tenths
getFFactorInsulated(conductivityWmK, thicknessMm) ==
  LET conductance == (conductivityWmK * 10) \div thicknessMm
  IN  interpolate(conductance, F_FACTOR_TABLE)

getEnvironmentalFactorThrows(config, conductivityWmK, thicknessMm) ==
  /\ FIXED_ENVIRONMENTAL_FACTORS(config) = undefined
  /\ (conductivityWmK = undefined \/ thicknessMm = undefined)

getEnvironmentalFactor(config, conductivityWmK, thicknessMm) ==
  LET fixed == FIXED_ENVIRONMENTAL_FACTORS(config)
  IN  IF fixed # undefined THEN fixed
      ELSE getFFactorInsulated(conductivityWmK, thicknessMm)

\* ------------------------------------------------------------------------
\* Geometry (src/unnamed/part_016)
\* ------------------------------------------------------------------------

\* Math.PI * x, with pi to four decimals
TimesPi(x) == MulDiv(x, 31416, 10000)

\* m3
calcMaxTankVolume(diameterMm, heightMm) ==
  LET r == diameterMm \div 2
  IN  TimesPi(MulDiv((r * r) \div 1000, heightMm, 1000)) \div 1000

\* tenths of m2
calcShellSurfaceArea(diameterMm, heightMm) ==
  TimesPi(MulDiv(diameterMm, heightMm, 1000)) \div 100

\* tenths of m2
calcConeRoofArea(diameterMm) ==
  LET rM     == diameterMm \div 2
      hRoofM == diameterMm \div CONE_ROOF_SLOPE
      slant  == sqrt(rM * rM + hRoofM * hRoofM)
  IN  TimesPi(MulDiv(rM, slant, 1000)) \div 100

calcTotalSurfaceArea(shellM2, coneRoofM2) == shellM2 + coneRoofM2

calcWettedArea(diameterMm, heightMm) ==
  LET fullShell   == TimesPi(MulDiv(diameterMm, heightMm, 1000)) \div 100
      cappedShell == TimesPi(MulDiv(diameterMm, WETTED_AREA_HEIGHT_CAP_MM, 1000)) \div 100
  IN  Min(fullShell, cappedShell)

\* 1 / (1 + U_i * (t/1000) / k)  =  10k / (10k + U_i * t)  in the model's units
calcR_in(insideHeatTransferCoeff, insulationThicknessMm, insulationConductivity) ==
  MulDiv(10000, 10 * insulationConductivity,
         10 * insulationConductivity + insideHeatTransferCoeff * insulationThicknessMm)

\* calcR_inp with the two weights exchanged.
calcR_inp_weightsSwapped(totalSurfaceAreaM2, insulatedSurfaceAreaM2, r_in) ==
  IF totalSurfaceAreaM2 = 0 THEN NaN
  ELSE LET ratio == MulDiv(insulatedSurfaceAreaM2, 10000, totalSurfaceAreaM2)
       IN  ratio + MulDiv(10000 - ratio, r_in, 10000)

\* ratio * r_in + (1 - ratio) * 1.  With a total area of 0 the ratio is NaN
\* (0 / 0) or an infinity (x / 0), and the sum is NaN either way.
calcR_inp(totalSurfaceAreaM2, insulatedSurfaceAreaM2, r_in) ==
  IF totalSurfaceAreaM2 = 0 THEN NaN
  ELSE LET ratio == MulDiv(insulatedSurfaceAreaM2, 10000, totalSurfaceAreaM2)
       IN  MulDiv(ratio, r_in, 10000) + (10000 - ratio)

ErrInsulationParams ==
  "computeDerivedGeometry: insulation parameters are required for insulated configurations"

ErrInsulatedSurfaceArea ==
  "computeDerivedGeometry: insulatedSurfaceArea is required for INSULATED_PARTIAL"

ErrEnvironmentalFactor == "getEnvironmentalFactor: insulation parameters required for config"

IsInsulated(tankConfiguration) ==
  tankConfiguration = "INSULATED_FULL" \/ tankConfiguration = "INSULATED_PARTIAL"

\* computeDerivedGeometryError testing the insulated surface area first.
computeDerivedGeometryError_areaFirst(input) ==
  IF ~IsInsulated(input.tankConfiguration) THEN ""
  ELSE IF /\ input.tankConfiguration = "INSULATED_PARTIAL"
          /\ input.insulatedSurfaceArea = undefined
       THEN ErrInsulatedSurfaceArea
  ELSE IF \/ input.insideHeatTransferCoeff = undefined
          \/ input.insulationThickness = undefined
          \/ input.insulationConductivity = undefined
       THEN ErrInsulationParams
  ELSE ""

\* The error computeDerivedGeometry throws for this input, "" when it returns.
computeDerivedGeometryError(input) ==
  IF ~IsInsulated(input.tankConfiguration) THEN ""
  ELSE IF \/ input.insideHeatTransferCoeff = undefined
          \/ input.insulationThickness = undefined
          \/ input.insulationConductivity = undefined
       THEN ErrInsulationParams
  ELSE IF /\ input.tankConfiguration = "INSULATED_PARTIAL"
          /\ input.insulatedSurfaceArea = undefined
       THEN ErrInsulatedSurfaceArea
  ELSE ""

\* computeDerivedGeometry selecting the reduction factor by the insulation
\* fields the input carries instead of by the configuration.
computeDerivedGeometry_byInsulationFields(input) ==
  LET shellSurfaceArea == calcShellSurfaceArea(input.diameter, input.height)
      coneRoofArea     == calcConeRoofArea(input.diameter)
      totalSurfaceArea == calcTotalSurfaceArea(shellSurfaceArea, coneRoofArea)
      maxTankVolume    == calcMaxTankVolume(input.diameter, input.height)
      wettedArea       == calcWettedArea(input.diameter, input.height)
      r_in == calcR_in(input.insideHeatTransferCoeff, input.insulationThickness,
                       input.insulationConductivity)
      reductionFactor ==
        IF \/ input.insideHeatTransferCoeff = undefined
           \/ input.insulationThickness = undefined
           \/ input.insulationConductivity = undefined
        THEN 10000
        ELSE IF input.insulatedSurfaceArea = undefined THEN r_in
        ELSE calcR_inp(totalSurfaceArea, input.insulatedSurfaceArea, r_in)
  IN  [maxTankVolume    |-> maxTankVolume,
       shellSurfaceArea |-> shellSurfaceArea,
       coneRoofArea     |-> coneRoofArea,
       totalSurfaceArea |-> totalSurfaceArea,
       wettedArea       |-> wettedArea,
       reductionFactor  |-> reductionFactor]

\* The DerivedGeometry computeDerivedGeometry returns (when it does not throw).
computeDerivedGeometry(input) ==
  LET shellSurfaceArea == calcShellSurfaceArea(input.diameter, input.height)
      coneRoofArea     == calcConeRoofArea(input.diameter)
      totalSurfaceArea == calcTotalSurfaceArea(shellSurfaceArea, coneRoofArea)
      maxTankVolume    == calcMaxTankVolume(input.diameter, input.height)
      wettedArea       == calcWettedArea(input.diameter, input.height)
      r_in == calcR_in(input.insideHeatTransferCoeff, input.insulationThickness,
                       input.insulationConductivity)
      reductionFactor ==
        IF ~IsInsulated(input.tankConfiguration) THEN 10000
        ELSE IF input.tankConfiguration = "INSULATED_FULL" THEN r_in
        ELSE calcR_inp(totalSurfaceArea, input.insulatedSurfaceArea, r_in)
  IN  [maxTankVolume    |-> maxTankVolume,
       shellSurfaceArea |-> shellSurfaceArea,
       coneRoofArea     |-> coneRoofArea,
       totalSurfaceArea |-> totalSurfaceArea,
       wettedArea       |-> wettedArea,
       reductionFactor  |-> reductionFactor]

\* ------------------------------------------------------------------------
\* Drain inbreathing (src/lib/calculations/drain.ts)
\* 3.48 * d * d * sqrt(H) * 3600 * 0.94, d and H in m
\* ------------------------------------------------------------------------

computeDrainInbreathing(drainLineSizeMm, maxHeightAboveDrainMm) ==
  LET sqrtH == sqrt(maxHeightAboveDrainMm * 1000)
      x1    == 348 * drainLineSizeMm * drainLineSizeMm
      x2    == MulDiv(x1, sqrtH, 10000)
      x3    == MulDiv(x2, 3600, 10000)
  IN  MulDiv(x3, 94, 100)

\* ------------------------------------------------------------------------
\* Normal venting (src/unnamed/part_014)
\* ------------------------------------------------------------------------

RECURSIVE sumFlowrates(_)
sumFlowrates(streams) ==
  IF Len(streams) = 0 THEN 0
  ELSE sumFlowrates(SubSeq(streams, 1, Len(streams) - 1)) + streams[Len(streams)].flowrate

\* processInbreathing taken from the incoming streams (the stream convention
\* reversed).
processInbreathing_fromIncoming(input) ==
  IF input.apiEdition = "5TH"
  THEN 94 * sumFlowrates(input.incomingStreams)
  ELSE 100 * sumFlowrates(input.incomingStreams)

\* processInbreathing of the three edition branches (lines 57, 87, 118)
processInbreathing(input) ==
  IF input.apiEdition = "5TH"
  THEN 94 * sumFlowrates(input.outgoingStreams)
  ELSE 100 * sumFlowrates(input.outgoingStreams)

\* processOutbreathing with the 7TH vapour-pressure threshold made inclusive.
processOutbreathing_inclusiveThreshold(input) ==
  LET incomingTotal == sumFlowrates(input.incomingStreams)
      lowVol == isLowVolatility(input.flashBoilingPointType, input.flashBoilingPoint)
  IN  IF input.apiEdition = "5TH"
      THEN (IF lowVol THEN 101 ELSE 202) * incomingTotal
      ELSE IF input.apiEdition = "6TH"
      THEN 100 * incomingTotal
      ELSE (IF input.vapourPressure >= 50 THEN 200 ELSE 100) * incomingTotal

\* processOutbreathing of the three edition branches (lines 61, 88, 122)
processOutbreathing(input) ==
  LET incomingTotal == sumFlowrates(input.incomingStreams)
      lowVol == isLowVolatility(input.flashBoilingPointType, input.flashBoilingPoint)
  IN  IF input.apiEdition = "5TH"
      THEN (IF lowVol THEN 101 ELSE 202) * incomingTotal
      ELSE IF input.apiEdition = "6TH"
      THEN 100 * incomingTotal
      ELSE (IF input.vapourPressure > 50 THEN 200 ELSE 100) * incomingTotal

\* yFactor reported as 1 under 6TH as well.
yFactorOf_oneUnder6TH(input) ==
  IF input.apiEdition \in {"5TH", "6TH"} THEN 100 ELSE getYFactor(input.latitude)

\* yFactor reported by the three branches (lines 68, 90, 124)
yFactorOf(input) ==
  IF input.apiEdition = "5TH" THEN 100 ELSE getYFactor(input.latitude)

\* cFactor reported by the three branches (lines 75, 91, 125)
cFactorOf(input, derived) ==
  IF input.apiEdition = "5TH" THEN 100
  ELSE getCFactor(input.latitude, input.flashBoilingPointType,
                  input.flashBoilingPoint, derived.maxTankVolume)

\* thermalOut with the 6TH branch on the volatility-dependent table column.
thermalOut_tableUnder6TH(input, derived) ==
  LET lowVol   == isLowVolatility(input.flashBoilingPointType, input.flashBoilingPoint)
      tableOut == normalVentOutbreathing(derived.maxTankVolume, lowVol)
  IN  IF input.apiEdition \in {"5TH", "6TH"}
      THEN MulDiv(tableOut, derived.reductionFactor, 10000)
      ELSE MulDiv(getYFactor(input.latitude) * pow(derived.maxTankVolume * 10, 900),
                  derived.reductionFactor, 10000) \div 10

\* thermalOut of the three branches (lines 63, 93, 127)
thermalOut(input, derived) ==
  LET lowVol   == isLowVolatility(input.flashBoilingPointType, input.flashBoilingPoint)
      tableOut == normalVentOutbreathing(derived.maxTankVolume, lowVol)
  IN  IF input.apiEdition = "5TH"
      THEN MulDiv(tableOut, derived.reductionFactor, 10000)
      ELSE MulDiv(getYFactor(input.latitude) * pow(derived.maxTankVolume * 10, 900),
                  derived.reductionFactor, 10000) \div 10

\* thermalIn of the three branches (lines 62, 94, 128)
thermalIn(input, derived) ==
  LET tableIn == normalVentInbreathing(derived.maxTankVolume)
  IN  IF input.apiEdition = "5TH"
      THEN MulDiv(tableIn, derived.reductionFactor, 10000)
      ELSE MulDiv(getCFactor(input.latitude, input.flashBoilingPointType,
                             input.flashBoilingPoint, derived.maxTankVolume)
                    * pow(derived.maxTankVolume * 10, 700),
                  derived.reductionFactor, 10000) \div 10

\* total as the sum in every edition.
combineTotal_alwaysSum(apiEdition, process, thermal) == process + thermal

\* total of a direction: Math.max under 5TH, the sum under 6TH and 7TH
\* (lines 71/78, 102/109, 136/143)
combineTotal(apiEdition, process, thermal) ==
  IF apiEdition = "5TH" THEN Max(process, thermal) ELSE process + thermal

computeNormalVenting(input, derived) ==
  [outbreathing |->
     [processFlowrate     |-> processOutbreathing(input),
      yFactor             |-> yFactorOf(input),
      reductionFactor     |-> derived.reductionFactor,
      thermalOutbreathing |-> thermalOut(input, derived),
      total               |-> combineTotal(input.apiEdition, processOutbreathing(input),
                                           thermalOut(input, derived))],
   inbreathing |->
     [processFlowrate    |-> processInbreathing(input),
      cFactor            |-> cFactorOf(input, derived),
      reductionFactor    |-> derived.reductionFactor,
      thermalInbreathing |-> thermalIn(input, derived),
      total              |-> combineTotal(input.apiEdition, processInbreathing(input),
                                          thermalIn(input, derived))]]

\* ------------------------------------------------------------------------
\* Emergency venting (src/lib/calculations/emergencyVenting.ts)
\* ------------------------------------------------------------------------

\* selectCoefficients with the area thresholds given to the lower row.
selectCoefficients_thresholdToLowerRow(wettedAreaM2, designPressure) ==
  IF wettedAreaM2 <= 186 THEN [a |-> 63150, n |-> 1000]
  ELSE IF wettedAreaM2 <= 930 THEN [a |-> 224200, n |-> 566]
  ELSE IF wettedAreaM2 <= 2600 THEN [a |-> 630400, n |-> 338]
  ELSE IF designPressure > 70 THEN [a |-> 43200, n |-> 820]
  ELSE [a |-> 4129700, n |-> 0]

selectCoefficients(wettedAreaM2, designPressure) ==
  IF wettedAreaM2 < 186 THEN [a |-> 63150, n |-> 1000]
  ELSE IF wettedAreaM2 < 930 THEN [a |-> 224200, n |-> 566]
  ELSE IF wettedAreaM2 < 2600 THEN [a |-> 630400, n |-> 338]
  ELSE IF designPressure > 70 THEN [a |-> 43200, n |-> 820]
  ELSE [a |-> 4129700, n |-> 0]

OrDefault(value, default) == IF value = undefined THEN default ELSE value

\* referenceFluidOf by the effective properties: a fluid whose properties
\* all equal the hexane defaults is tagged Hexane.
referenceFluidOf_byEffectiveValues(input) ==
  IF /\ OrDefault(input.latentHeat, HEXANE_DEFAULTS.latentHeat) = HEXANE_DEFAULTS.latentHeat
     /\ OrDefault(input.relievingTemperature, HEXANE_DEFAULTS.relievingTemperature)
          = HEXANE_DEFAULTS.relievingTemperature
     /\ OrDefault(input.molecularMass, HEXANE_DEFAULTS.molecularMass)
          = HEXANE_DEFAULTS.molecularMass
  THEN "Hexane" ELSE "User-defined"

referenceFluidOf(input) ==
  IF /\ input.latentHeat = undefined
     /\ input.relievingTemperature = undefined
     /\ input.molecularMass = undefined
  THEN "Hexane" ELSE "User-defined"

\* The general formula without the environmental factor.
generalFormula_withoutF(heatInput, envFactor, latentHeat, relievingTemperature, molecularMass) ==
  LET q1   == MulDiv(heatInput, 9066, 10000)
      q2   == q1 * 10
      v1   == MulDiv(q2, 1000, latentHeat)
      root == sqrt(MulDiv(10 * relievingTemperature + 27315, 1000000, molecularMass))
  IN  MulDiv(v1, root, 1000)

\* (906.6 * Q * F) / (1000 * L) * Math.sqrt((T_r + 273.15) / M)
generalFormula(heatInput, envFactor, latentHeat, relievingTemperature, molecularMass) ==
  LET q1   == MulDiv(heatInput, 9066, 10000)
      q2   == MulDiv(q1, envFactor, 1000)
      v1   == MulDiv(q2, 1000, latentHeat)
      root == sqrt(MulDiv(10 * relievingTemperature + 27315, 1000000, molecularMass))
  IN  MulDiv(v1, root, 1000)

\* The vent-rate selection with the table path kept for the hexane fluid only.
ventRateBranch_tableForHexaneOnly(input, derived) ==
  IF referenceFluidOf(input) = "User-defined" THEN "general"
  ELSE IF derived.wettedArea < 2600 THEN "table"
  ELSE IF input.designPressure <= 70 THEN "hexaneLowPressure"
  ELSE "hexaneHighPressure"

\* which branch of the vent-rate selection (lines 80-94) the input takes
ventRateBranch(input, derived) ==
  IF derived.wettedArea < 2600 THEN "table"
  ELSE IF referenceFluidOf(input) = "User-defined" THEN "general"
  ELSE IF input.designPressure <= 70 THEN "hexaneLowPressure"
  ELSE "hexaneHighPressure"

\* computeEmergencyVenting with the vent rate of 7TH always on the general
\* formula.
computeEmergencyVenting_generalUnder7TH(input, derived) ==
  LET wettedArea   == derived.wettedArea
      L            == OrDefault(input.latentHeat, HEXANE_DEFAULTS.latentHeat)
      T_r          == OrDefault(input.relievingTemperature,
                                HEXANE_DEFAULTS.relievingTemperature)
      M            == OrDefault(input.molecularMass, HEXANE_DEFAULTS.molecularMass)
      F            == getEnvironmentalFactor(input.tankConfiguration,
                                             input.insulationConductivity,
                                             input.insulationThickness)
      coefficients == selectCoefficients(wettedArea, input.designPressure)
      Q            == MulDiv(coefficients.a, pow(wettedArea, coefficients.n), 100)
      emergencyVentRequired ==
        IF input.apiEdition # "7TH" /\ wettedArea <= 2600
        THEN MulDiv(emergencyVentTableLookup(wettedArea), F, 10000)
        ELSE generalFormula(Q, F, L, T_r, M)
  IN  [heatInput             |-> Q,
       environmentalFactor   |-> F,
       emergencyVentRequired |-> emergencyVentRequired,
       coefficients          |-> coefficients,
       referenceFluid        |-> referenceFluidOf(input)]

computeEmergencyVenting(input, derived) ==
  LET wettedArea   == derived.wettedArea
      L            == OrDefault(input.latentHeat, HEXANE_DEFAULTS.latentHeat)
      T_r          == OrDefault(input.relievingTemperature,
                                HEXANE_DEFAULTS.relievingTemperature)
      M            == OrDefault(input.molecularMass, HEXANE_DEFAULTS.molecularMass)
      F            == getEnvironmentalFactor(input.tankConfiguration,
                                             input.insulationConductivity,
                                             input.insulationThickness)
      coefficients == selectCoefficients(wettedArea, input.designPressure)
      Q            == MulDiv(coefficients.a, pow(wettedArea, coefficients.n), 100)
      branch       == ventRateBranch(input, derived)
      emergencyVentRequired ==
        CASE branch = "table"   -> MulDiv(emergencyVentTableLookup(wettedArea), F, 10000)
          [] branch = "general" -> generalFormula(Q, F, L, T_r, M)
          [] branch = "hexaneLowPressure"  -> MulDiv(19910000, F, 10000)
          [] branch = "hexaneHighPressure" -> MulDiv(2082 * F, pow(wettedArea, 820), 10000)
  IN  [heatInput             |-> Q,
       environmentalFactor   |-> F,
       emergencyVentRequired |-> emergencyVentRequired,
       coefficients          |-> coefficients,
       referenceFluid        |-> referenceFluidOf(input)]

\* ------------------------------------------------------------------------
\* State
\* ------------------------------------------------------------------------

VARIABLES
  now,    \* the wall clock new Date() reads
  calls,  \* the invocations of calculate, each at its position in the pipeline
  nv,     \* a pair of computeNormalVenting applications
  ev,     \* a pair of computeEmergencyVenting applications
  app,    \* one application of a geometry or lookup function
  post,   \* one request to POST /api/vent/calculate
  formValues,  \* useCalculation: the form values useWatch returns
  timer,       \* useCalculation: the pending debounce timer
  abortRef,    \* useCalculation: the controller of the latest request
  fetches,     \* useCalculation: the requests issued so far
  store        \* the calculator store

hookVars == <<formValues, timer, abortRef, fetches, store>>

vars == <<now, calls, nv, ev, app, post, hookVars>>

NULL == [null |-> TRUE]

\* No component using useCalculation is mounted.
HookUnmounted ==
  /\ formValues = NULL
  /\ timer = NULL
  /\ abortRef = NULL
  /\ fetches = NULL
  /\ store = NULL

MaxClock == 2

\* The two invocations a 2-safety property relates.
Calls == {"a", "b"}

Stream(f) == [flowrate |-> f]

\* Reference case of the test suites (src/__tests__/calculate.test.ts:7-21)
REF ==
  [diameter                |-> 24000,
   height                  |-> 17500,
   latitude                |-> 127,
   designPressure          |-> 1013,
   tankConfiguration       |-> "BARE_METAL",
   insulationThickness     |-> undefined,
   insulationConductivity  |-> undefined,
   insideHeatTransferCoeff |-> undefined,
   insulatedSurfaceArea    |-> undefined,
   avgStorageTemp          |-> 350,
   vapourPressure          |-> 56,
   flashBoilingPointType   |-> "FP",
   flashBoilingPoint       |-> undefined,
   latentHeat              |-> undefined,
   relievingTemperature    |-> undefined,
   molecularMass           |-> undefined,
   incomingStreams         |-> <<>>,
   outgoingStreams         |-> <<Stream(3689)>>,
   drainLineSize           |-> undefined,
   maxHeightAboveDrain     |-> undefined,
   apiEdition              |-> "7TH"]

\* Tank configurations with the insulation fields that accompany them:
\* <<configuration, thickness, conductivity, U_i, insulated area>>
ConfigVariants ==
  { <<"BARE_METAL", undefined, undefined, undefined, undefined>>,
    <<"UNDERGROUND", undefined, undefined, undefined, undefined>>,
    <<"INSULATED_FULL", 102, 50, 57, undefined>>,
    <<"INSULATED_FULL", 102, undefined, 57, undefined>>,
    <<"INSULATED_FULL", 102, 50, undefined, undefined>>,
    <<"INSULATED_PARTIAL", undefined, 50, 57, 5000>>,
    <<"INSULATED_PARTIAL", 102, 50, 57, 5000>>,
    <<"INSULATED_PARTIAL", 102, 50, 57, undefined>> }

\* <<drainLineSize, maxHeightAboveDrain>>
DrainVariants == { <<undefined, undefined>>, <<200, 5000>> }

\* <<latentHeat, relievingTemperature, molecularMass>>
FluidVariants == { <<undefined, undefined, undefined>>, <<4000, 200, 10000>> }

\* <<diameter, height>>: below and above the 260 m2 wetted area
GeometryVariants == { <<10000, 5000>>, <<24000, 17500>> }

NoDrain == <<undefined, undefined>>

HexaneFluid == <<undefined, undefined, undefined>>

RefGeometry == <<24000, 17500>>

MakeInput(e, c, d, f, g) ==
  [REF EXCEPT !.apiEdition = e,
              !.tankConfiguration = c[1],
              !.insulationThickness = c[2],
              !.insulationConductivity = c[3],
              !.insideHeatTransferCoeff = c[4],
              !.insulatedSurfaceArea = c[5],
              !.drainLineSize = d[1],
              !.maxHeightAboveDrain = d[2],
              !.latentHeat = f[1],
              !.relievingTemperature = f[2],
              !.molecularMass = f[3],
              !.diameter = g[1],
              !.height = g[2]]

\* Bare-metal tanks at the edges of the summary and the warnings: a drain
\* with one of its two fields missing, a fluid with one property supplied,
\* a tank of 31416 m3 and a tank of 30000 m3 (52100 x 14072 mm: 29999.99 m3).
BoundaryInputs ==
  { MakeInput("7TH", <<"BARE_METAL", undefined, undefined, undefined, undefined>>, d, f, g) :
      <<d, f, g>> \in
        { << <<200, undefined>>,  HexaneFluid, RefGeometry >>,
          << <<undefined, 5000>>, HexaneFluid, RefGeometry >>,
          << NoDrain, <<3349, undefined, undefined>>, RefGeometry >>,
          << NoDrain, HexaneFluid, <<50000, 16000>> >>,
          << NoDrain, HexaneFluid, <<52100, 14072>> >> } }

\* The inputs calculate is invoked with: every edition and configuration on
\* the reference tank, the reference configuration with each drain,
\* fluid and geometry variant, and the boundary inputs.
CalcInputs ==
  BoundaryInputs \cup
  { MakeInput(e, c, NoDrain, HexaneFluid, RefGeometry) :
      e \in ApiEdition, c \in ConfigVariants }
  \cup
  { MakeInput("7TH", <<"BARE_METAL", undefined, undefined, undefined, undefined>>, d, f, g) :
      d \in DrainVariants, f \in FluidVariants, g \in GeometryVariants }

IdleCall ==
  [pc |-> "idle", input |-> NULL, derived |-> NULL, normalVenting |-> NULL,
   emergencyVenting |-> NULL, drainInbreathing |-> undefined,
   result |-> NULL, error |-> "", steps |-> <<>>]

\* ------------------------------------------------------------------------
\* calculate (src/lib/calculations/index.ts:18-67), one action per step
\* ------------------------------------------------------------------------

Init ==
  /\ now = 0
  /\ post = NULL
  /\ HookUnmounted
  /\ calls = [c \in Calls |-> IdleCall]
  /\ nv = NULL
  /\ ev = NULL
  /\ app = NULL

\* new Date() advances between and during invocations
Tick ==
  /\ now < MaxClock
  /\ now' = now + 1
  /\ UNCHANGED <<calls, nv, ev, app, post, hookVars>>

\* a caller invokes calculate(input)
Invoke(c, input) ==
  /\ calls[c].pc = "idle"
  /\ calls' = [calls EXCEPT ![c] = [IdleCall EXCEPT !.pc = "geometry", !.input = input]]
  /\ UNCHANGED <<now, nv, ev, app, post, hookVars>>

\* StepGeometry with a recovery: a geometry error is swallowed and the
\* pipeline goes on with the bare-metal reduction factor.
StepGeometry_recovers(c) ==
  /\ calls[c].pc = "geometry"
  /\ LET input == calls[c].input
         bare  == [input EXCEPT !.tankConfiguration = "BARE_METAL"]
     IN  calls' = [calls EXCEPT ![c] =
           [@ EXCEPT !.pc = "normal",
                     !.derived = computeDerivedGeometry(
                        IF computeDerivedGeometryError(input) # "" THEN bare ELSE input),
                     !.steps = Append(@, "geometry")]]
  /\ UNCHANGED <<now, nv, ev, app, post, hookVars>>

\* StepGeometry leaving the insulation parameters unchecked: the reduction
\* factor keeps its initial value 1.0 when one of them is missing.
StepGeometry_insulationUnchecked(c) ==
  /\ calls[c].pc = "geometry"
  /\ LET input == calls[c].input
         err   == computeDerivedGeometryError(input)
         bare  == [input EXCEPT !.tankConfiguration = "BARE_METAL"]
     IN  calls' = [calls EXCEPT ![c] =
           IF err = ErrInsulatedSurfaceArea
           THEN [@ EXCEPT !.pc = "failed", !.error = err,
                          !.steps = Append(@, "geometry")]
           ELSE [@ EXCEPT !.pc = "normal",
                          !.derived = computeDerivedGeometry(
                             IF err = "" THEN input ELSE bare),
                          !.steps = Append(@, "geometry")]]
  /\ UNCHANGED <<now, nv, ev, app, post, hookVars>>

\* line 20
StepGeometry(c) ==
  /\ calls[c].pc = "geometry"
  /\ LET err == computeDerivedGeometryError(calls[c].input)
     IN  calls' = [calls EXCEPT ![c] =
           IF err # ""
           THEN [@ EXCEPT !.pc = "failed", !.error = err,
                          !.steps = Append(@, "geometry")]
           ELSE [@ EXCEPT !.pc = "normal",
                          !.derived = computeDerivedGeometry(calls[c].input),
                          !.steps = Append(@, "geometry")]]
  /\ UNCHANGED <<now, nv, ev, app, post, hookVars>>

\* line 23
StepNormalVenting(c) ==
  /\ calls[c].pc = "normal"
  /\ calls' = [calls EXCEPT ![c] =
       [@ EXCEPT !.pc = "emergency",
                 !.normalVenting = computeNormalVenting(calls[c].input, calls[c].derived),
                 !.steps = Append(@, "normal")]]
  /\ UNCHANGED <<now, nv, ev, app, post, hookVars>>

\* line 26
StepEmergencyVenting(c) ==
  /\ calls[c].pc = "emergency"
  /\ LET input == calls[c].input
         threw == getEnvironmentalFactorThrows(input.tankConfiguration,
                    input.insulationConductivity, input.insulationThickness)
     IN  calls' = [calls EXCEPT ![c] =
           IF threw
           THEN [@ EXCEPT !.pc = "failed", !.error = ErrEnvironmentalFactor,
                          !.steps = Append(@, "emergency")]
           ELSE [@ EXCEPT !.pc = "drain",
                          !.emergencyVenting =
                             computeEmergencyVenting(input, calls[c].derived),
                          !.steps = Append(@, "emergency")]]
  /\ UNCHANGED <<now, nv, ev, app, post, hookVars>>

\* StepDrain computing the drain value as soon as the line size is given.
StepDrain_lineSizeOnly(c) ==
  /\ calls[c].pc = "drain"
  /\ LET input == calls[c].input
     IN  calls' = [calls EXCEPT ![c] =
           [@ EXCEPT !.pc = "summary",
                     !.drainInbreathing =
                        IF input.drainLineSize # undefined
                        THEN computeDrainInbreathing(input.drainLineSize,
                               OrDefault(input.maxHeightAboveDrain, 0))
                        ELSE undefined,
                     !.steps = Append(@, "drain")]]
  /\ UNCHANGED <<now, nv, ev, app, post, hookVars>>

\* lines 29-32
StepDrain(c) ==
  /\ calls[c].pc = "drain"
  /\ LET input == calls[c].input
     IN  calls' = [calls EXCEPT ![c] =
           [@ EXCEPT !.pc = "summary",
                     !.drainInbreathing =
                        IF /\ input.drainLineSize # undefined
                           /\ input.maxHeightAboveDrain # undefined
                        THEN computeDrainInbreathing(input.drainLineSize,
                                                     input.maxHeightAboveDrain)
                        ELSE undefined,
                     !.steps = Append(@, "drain")]]
  /\ UNCHANGED <<now, nv, ev, app, post, hookVars>>

\* CalculationResult warning from a capacity of 30000 m3 on.
CalculationResult_warnsAtCapacity(input, derived, normalVenting, emergencyVenting, drainInbreathing, clock) ==
  [derived          |-> derived,
   normalVenting    |-> normalVenting,
   emergencyVenting |-> emergencyVenting,
   drainInbreathing |-> drainInbreathing,
   summary |->
     [designOutbreathing |-> normalVenting.outbreathing.total,
      designInbreathing  |-> Max(normalVenting.inbreathing.total,
                                 OrDefault(drainInbreathing, 0)),
      emergencyVenting   |-> emergencyVenting.emergencyVentRequired],
   warnings |->
     [capacityExceedsTable |-> derived.maxTankVolume >= CAPACITY_WARNING_M3,
      undergroundTank      |-> emergencyVenting.environmentalFactor = 0,
      hexaneDefaults       |-> \/ input.latentHeat = undefined
                               \/ input.relievingTemperature = undefined
                               \/ input.molecularMass = undefined],
   apiEdition   |-> input.apiEdition,
   calculatedAt |-> clock]

\* CalculationResult with the clock leaking into a computed field.
CalculationResult_clockInSummary(input, derived, normalVenting, emergencyVenting, drainInbreathing, clock) ==
  [derived          |-> derived,
   normalVenting    |-> normalVenting,
   emergencyVenting |-> emergencyVenting,
   drainInbreathing |-> drainInbreathing,
   summary |->
     [designOutbreathing |-> normalVenting.outbreathing.total + clock,
      designInbreathing  |-> Max(normalVenting.inbreathing.total,
                                 OrDefault(drainInbreathing, 0)),
      emergencyVenting   |-> emergencyVenting.emergencyVentRequired],
   warnings |->
     [capacityExceedsTable |-> derived.maxTankVolume > CAPACITY_WARNING_M3,
      undergroundTank      |-> emergencyVenting.environmentalFactor = 0,
      hexaneDefaults       |-> \/ input.latentHeat = undefined
                               \/ input.relievingTemperature = undefined
                               \/ input.molecularMass = undefined],
   apiEdition   |-> input.apiEdition,
   calculatedAt |-> clock]

\* lines 36-66: the CalculationResult calculate returns
CalculationResult(input, derived, normalVenting, emergencyVenting, drainInbreathing, clock) ==
  [derived          |-> derived,
   normalVenting    |-> normalVenting,
   emergencyVenting |-> emergencyVenting,
   drainInbreathing |-> drainInbreathing,
   summary |->
     [designOutbreathing |-> normalVenting.outbreathing.total,
      designInbreathing  |-> Max(normalVenting.inbreathing.total,
                                 OrDefault(drainInbreathing, 0)),
      emergencyVenting   |-> emergencyVenting.emergencyVentRequired],
   warnings |->
     [capacityExceedsTable |-> derived.maxTankVolume > CAPACITY_WARNING_M3,
      undergroundTank      |-> emergencyVenting.environmentalFactor = 0,
      hexaneDefaults       |-> \/ input.latentHeat = undefined
                               \/ input.relievingTemperature = undefined
                               \/ input.molecularMass = undefined],
   apiEdition   |-> input.apiEdition,
   calculatedAt |-> clock]

StepSummary(c) ==
  /\ calls[c].pc = "summary"
  /\ calls' = [calls EXCEPT ![c] =
       [@ EXCEPT !.pc = "done",
                 !.result = CalculationResult(calls[c].input, calls[c].derived,
                              calls[c].normalVenting, calls[c].emergencyVenting,
                              calls[c].drainInbreathing, now),
                 !.steps = Append(@, "summary")]]
  /\ UNCHANGED <<now, nv, ev, app, post, hookVars>>

Next ==
  \/ Tick
  \/ \E c \in Calls, input \in CalcInputs : Invoke(c, input)
  \/ \E c \in Calls : StepGeometry(c)
  \/ \E c \in Calls : StepNormalVenting(c)
  \/ \E c \in Calls : StepEmergencyVenting(c)
  \/ \E c \in Calls : StepDrain(c)
  \/ \E c \in Calls : StepSummary(c)

Spec == Init /\ [][Next]_vars

\* ------------------------------------------------------------------------
\* computeNormalVenting applied to a pair of arguments
\* ------------------------------------------------------------------------

\* DerivedGeometry of the reference tank
REF_DERIVED == computeDerivedGeometry(REF)

Latitudes == {420, 421, 581}

VapourPressures == {50, 51}

\* <<flashBoilingPointType, flashBoilingPoint>>
FlashBoilingPoints ==
  { <<"FP", undefined>>, <<"FP", 377>>, <<"FP", 378>>, <<"BP", 1489>>, <<"BP", 1490>> }

IncomingStreams == { <<>>, <<Stream(500), Stream(750)>>, <<Stream(500000)>> }

OutgoingStreams == { <<>>, <<Stream(3689)>>, <<Stream(1000), Stream(2000)>> }

\* <<maxTankVolume, reductionFactor>>
NVDerived == { <<24, 10000>>, <<7916, 10000>>, <<7916, 792>> }

NVArgs ==
  { [input |-> [REF EXCEPT !.apiEdition = e, !.latitude = lat, !.vapourPressure = vp,
                           !.flashBoilingPointType = fp[1], !.flashBoilingPoint = fp[2],
                           !.incomingStreams = inc, !.outgoingStreams = out],
     derived |-> [REF_DERIVED EXCEPT !.maxTankVolume = d[1], !.reductionFactor = d[2]]] :
      e \in ApiEdition, lat \in Latitudes, vp \in VapourPressures,
      fp \in FlashBoilingPoints,
      inc \in IncomingStreams \ {<<>>}, out \in OutgoingStreams \ {<<Stream(1000), Stream(2000)>>},
      d \in NVDerived }

\* The second argument of a pair: the first with one field replaced.
NVVariations(x) ==
  { [x EXCEPT !.input.apiEdition = e] : e \in ApiEdition }
  \cup { [x EXCEPT !.input.latitude = lat] : lat \in Latitudes }
  \cup { [x EXCEPT !.input.vapourPressure = vp] : vp \in VapourPressures }
  \cup { [x EXCEPT !.input.flashBoilingPointType = fp[1],
                   !.input.flashBoilingPoint = fp[2]] : fp \in FlashBoilingPoints }
  \cup { [x EXCEPT !.input.incomingStreams = inc] : inc \in IncomingStreams }
  \cup { [x EXCEPT !.input.outgoingStreams = out] : out \in OutgoingStreams }

InitNV ==
  /\ now = 0
  /\ post = NULL
  /\ HookUnmounted
  /\ calls = [c \in Calls |-> IdleCall]
  /\ ev = NULL
  /\ app = NULL
  /\ \E x \in NVArgs : \E y \in NVVariations(x) :
       nv = [a |-> [args |-> x, result |-> NULL],
             b |-> [args |-> y, result |-> NULL]]

\* computeNormalVenting(input, derived) is applied to one argument of the pair
ApplyNormalVenting(k) ==
  /\ nv[k].result = NULL
  /\ nv' = [nv EXCEPT ![k].result =
              computeNormalVenting(nv[k].args.input, nv[k].args.derived)]
  /\ UNCHANGED <<now, calls, ev, app, post, hookVars>>

NextNV == \E k \in Calls : ApplyNormalVenting(k)

SpecNV == InitNV /\ [][NextNV]_vars

\* ------------------------------------------------------------------------
\* computeEmergencyVenting applied to a pair of arguments
\* ------------------------------------------------------------------------

DesignPressures == {70, 71}

\* <<configuration, insulationThickness, insulationConductivity>>
EVConfigs ==
  { <<"BARE_METAL", undefined, undefined>>, <<"UNDERGROUND", undefined, undefined>>,
    <<"IMPOUNDMENT", undefined, undefined>>, <<"INSULATED_FULL", 102, 1000>> }

\* <<latentHeat, relievingTemperature, molecularMass>>
EVFluids ==
  { <<undefined, undefined, undefined>>, <<3349, undefined, undefined>>,
    <<4000, 200, 10000>> }

WettedAreas == {185, 186, 929, 930, 2599, 2600, 2601, 6894}

EVArgs ==
  { [input |-> [REF EXCEPT !.apiEdition = e, !.designPressure = dp,
                           !.tankConfiguration = c[1], !.insulationThickness = c[2],
                           !.insulationConductivity = c[3],
                           !.latentHeat = f[1], !.relievingTemperature = f[2],
                           !.molecularMass = f[3]],
     derived |-> [REF_DERIVED EXCEPT !.wettedArea = w]] :
      e \in ApiEdition, dp \in DesignPressures, c \in EVConfigs, f \in EVFluids,
      w \in WettedAreas }

EVVariations(x) ==
  { [x EXCEPT !.input.apiEdition = e] : e \in ApiEdition }
  \cup { [x EXCEPT !.input.designPressure = dp] : dp \in DesignPressures }
  \cup { [x EXCEPT !.input.tankConfiguration = c[1], !.input.insulationThickness = c[2],
                   !.input.insulationConductivity = c[3]] : c \in EVConfigs }
  \cup { [x EXCEPT !.input.latentHeat = f[1], !.input.relievingTemperature = f[2],
                   !.input.molecularMass = f[3]] : f \in EVFluids }
  \cup { [x EXCEPT !.derived.wettedArea = w] : w \in WettedAreas }

InitEV ==
  /\ now = 0
  /\ post = NULL
  /\ HookUnmounted
  /\ calls = [c \in Calls |-> IdleCall]
  /\ nv = NULL
  /\ app = NULL
  /\ \E x \in EVArgs : \E y \in EVVariations(x) :
       ev = [a |-> [args |-> x, result |-> NULL],
             b |-> [args |-> y, result |-> NULL]]

\* computeEmergencyVenting(input, derived) is applied to one argument of the pair
ApplyEmergencyVenting(k) ==
  /\ ev[k].result = NULL
  /\ ev' = [ev EXCEPT ![k].result =
              computeEmergencyVenting(ev[k].args.input, ev[k].args.derived)]
  /\ UNCHANGED <<now, calls, nv, app, post, hookVars>>

NextEV == \E k \in Calls : ApplyEmergencyVenting(k)

SpecEV == InitEV /\ [][NextEV]_vars

\* ========================================================================
\* Properties of calculate (specification Spec)
\* ========================================================================

Settled(c) == calls[c].pc \in {"done", "failed"}

WithoutTimestamp(result) ==
  IF result = NULL THEN NULL ELSE [result EXCEPT !.calculatedAt = 0]

\* C1 as stated: any two invocations of calculate on the same input return
\* results that are identical in every field.
C1_IdenticalInEveryField ==
  \A c, d \in Calls :
    (calls[c].pc = "done" /\ calls[d].pc = "done" /\ calls[c].input = calls[d].input)
      => calls[c].result = calls[d].result

\* C1 amended: any two invocations of calculate on the same input, whenever
\* they run and however their steps interleave with other invocations, end
\* the same way (both return or both throw the same error) and return results
\* that are identical in every field except calculatedAt.
C1_IdenticalExceptTimestamp ==
  \A c, d \in Calls :
    (Settled(c) /\ Settled(d) /\ calls[c].input = calls[d].input)
      => /\ calls[c].pc = calls[d].pc
         /\ calls[c].error = calls[d].error
         /\ WithoutTimestamp(calls[c].result) = WithoutTimestamp(calls[d].result)

\* Two invocations on the same input have returned at different times.
C1_Witness ==
  /\ calls["a"].pc = "done"
  /\ calls["b"].pc = "done"
  /\ calls["a"].input = calls["b"].input
  /\ calls["a"].result.calculatedAt # calls["b"].result.calculatedAt

PipelineOrder == <<"geometry", "normal", "emergency", "drain", "summary">>

IsPrefix(s, t) == Len(s) <= Len(t) /\ s = SubSeq(t, 1, Len(s))

\* C2: calculate performs no recovery.  The steps run in the order geometry,
\* normal venting, emergency venting, drain, summary; an invocation whose
\* geometry step or lookup raises an error ends with exactly that error, has
\* run no later step and has no result, partial or defaulted; an invocation
\* that returns has raised no error.
C2_NoRecovery ==
  \A c \in Calls :
    LET call   == calls[c]
        geoErr == computeDerivedGeometryError(call.input)
    IN  /\ IsPrefix(call.steps, PipelineOrder)
        /\ (call.pc \notin {"idle", "geometry"} /\ geoErr # "")
             => /\ call.pc = "failed"
                /\ call.error = geoErr
                /\ call.steps = <<"geometry">>
        /\ call.pc = "failed"
             => /\ call.result = NULL
                /\ call.error # ""
                /\ call.normalVenting = NULL \/ call.steps = <<"geometry", "normal", "emergency">>
                /\ call.emergencyVenting = NULL
                /\ call.drainInbreathing = undefined
        /\ call.pc = "done"
             => /\ call.error = ""
                /\ geoErr = ""
                /\ call.steps = PipelineOrder
                /\ call.result # NULL

\* An invocation has failed in the geometry step.
C2_Witness ==
  \E c \in Calls :
    /\ calls[c].pc = "failed"
    /\ calls[c].error = ErrInsulationParams
    /\ calls[c].steps = <<"geometry">>

\* ========================================================================
\* Properties of computeNormalVenting (specification SpecNV)
\* ========================================================================

NVApplied(k) == nv[k].result # NULL

NVBothApplied == NVApplied("a") /\ NVApplied("b")

\* C3: in each direction the reported total is the larger of the process
\* flowrate and the thermal flowrate under 5TH, and their sum under 6TH and
\* 7TH.
C3_TotalCombination ==
  \A k \in Calls : NVApplied(k) =>
    LET e   == nv[k].args.input.apiEdition
        out == nv[k].result.outbreathing
        inb == nv[k].result.inbreathing
    IN  /\ e = "5TH" =>
             /\ out.total = Max(out.processFlowrate, out.thermalOutbreathing)
             /\ inb.total = Max(inb.processFlowrate, inb.thermalInbreathing)
        /\ e \in {"6TH", "7TH"} =>
             /\ out.total = out.processFlowrate + out.thermalOutbreathing
             /\ inb.total = inb.processFlowrate + inb.thermalInbreathing

\* A 5TH result whose process and thermal outbreathing are both positive,
\* so that the larger and the sum differ.
C3_Witness ==
  \E k \in Calls :
    /\ NVApplied(k)
    /\ nv[k].args.input.apiEdition = "5TH"
    /\ nv[k].result.outbreathing.processFlowrate > nv[k].result.outbreathing.thermalOutbreathing
    /\ nv[k].result.outbreathing.thermalOutbreathing > 0
    /\ nv[k].result.inbreathing.processFlowrate > 0
    /\ nv[k].result.inbreathing.thermalInbreathing > nv[k].result.inbreathing.processFlowrate

\* The multiplier of the incoming sum, in hundredths.
OutbreathingMultiplier(input) ==
  CASE input.apiEdition = "5TH" ->
         IF \/ input.flashBoilingPointType = "FP" /\ input.flashBoilingPoint # undefined
                                                  /\ input.flashBoilingPoint >= 378
            \/ input.flashBoilingPointType = "BP" /\ input.flashBoilingPoint # undefined
                                                  /\ input.flashBoilingPoint >= 1490
         THEN 101 ELSE 202
    [] input.apiEdition = "6TH" -> 100
    [] input.apiEdition = "7TH" -> IF input.vapourPressure <= 50 THEN 100 ELSE 200

EVApplied(k) == ev[k].result # NULL

EVBothApplied == EVApplied("a") /\ EVApplied("b")

\* The five rows of the coefficient table: <<applies, a, n>>.
CoefficientRows(area, pressure) ==
  << <<area < 186,                          63150,   1000>>,
     <<186 <= area /\ area < 930,           224200,  566>>,
     <<930 <= area /\ area < 2600,          630400,  338>>,
     <<area >= 2600 /\ pressure <= 70,      4129700, 0>>,
     <<area >= 2600 /\ pressure > 70,       43200,   820>> >>

TablePathRate(k) ==
  MulDiv(emergencyVentTableLookup(ev[k].args.derived.wettedArea),
         ev[k].result.environmentalFactor, 10000)

ScaledByF(rateAtOne, F) == MulDiv(rateAtOne, F, 10000)

\* C12: with an environmental factor of 0 the required emergency vent rate
\* is 0 on every branch; and the vent rate is F times a value that does not
\* depend on F: of two inputs that differ only in the tank configuration, one
\* of them bare metal (F = 1), the other's rate is the bare-metal rate times
\* its F (to within the rounding of the fixed-point arithmetic, one part in a
\* thousand plus one unit).
C12_ProportionalToF ==
  /\ \A k \in Calls :
       (EVApplied(k) /\ ev[k].result.environmentalFactor = 0)
         => ev[k].result.emergencyVentRequired = 0
  /\ ( /\ EVBothApplied
       /\ ev["b"].args.input.tankConfiguration = "BARE_METAL"
       /\ [ev["a"].args EXCEPT
             !.input.tankConfiguration = "BARE_METAL",
             !.input.insulationThickness = ev["b"].args.input.insulationThickness,
             !.input.insulationConductivity = ev["b"].args.input.insulationConductivity]
            = ev["b"].args )
     => LET scaled == ScaledByF(ev["b"].result.emergencyVentRequired,
                                ev["a"].result.environmentalFactor)
            rate   == ev["a"].result.emergencyVentRequired
        IN  /\ rate <= scaled + 1 + (scaled \div 1000)
            /\ scaled <= rate + 1 + (rate \div 1000)

\* An underground tank paired with the same tank of bare metal, a
\* user-defined fluid on the general formula: the bare-metal rate is
\* positive and the underground rate is 0.
C12_Witness ==
  /\ EVBothApplied
  /\ ev["a"].args.input.tankConfiguration = "UNDERGROUND"
  /\ ev["b"].args.input.tankConfiguration = "BARE_METAL"
  /\ ev["a"].args.derived.wettedArea = 6894
  /\ ev["b"].args.derived.wettedArea = 6894
  /\ ev["a"].result.referenceFluid = "User-defined"
  /\ ev["b"].result.referenceFluid = "User-defined"
  /\ ev["a"].result.environmentalFactor = 0
  /\ ev["a"].result.emergencyVentRequired = 0
  /\ ev["b"].result.emergencyVentRequired > 0

\* ========================================================================
\* Properties of the summary and the warnings (specification Spec)
\* ========================================================================

DrainGiven(input) ==
  input.drainLineSize # undefined /\ input.maxHeightAboveDrain # undefined

\* C13: in every result of calculate designOutbreathing is the normal
\* outbreathing total, summary.emergencyVenting is emergencyVentRequired and
\* designInbreathing is the larger of the normal inbreathing total and the
\* drain value, or 0 without one; the drain value is present, and computed
\* from the two drain fields, exactly when both are given; designInbreathing
\* is never below the normal inbreathing total.
C13_Summary ==
  \A c \in Calls : calls[c].pc = "done" =>
    LET input  == calls[c].input
        result == calls[c].result
        inTotal == result.normalVenting.inbreathing.total
    IN  /\ result.summary.designOutbreathing = result.normalVenting.outbreathing.total
        /\ result.summary.emergencyVenting = result.emergencyVenting.emergencyVentRequired
        /\ (result.drainInbreathing # undefined) <=> DrainGiven(input)
        /\ DrainGiven(input) =>
             /\ result.drainInbreathing =
                  computeDrainInbreathing(input.drainLineSize, input.maxHeightAboveDrain)
             /\ result.summary.designInbreathing = Max(inTotal, result.drainInbreathing)
        /\ ~DrainGiven(input) => result.summary.designInbreathing = Max(inTotal, 0)
        /\ result.summary.designInbreathing >= inTotal

\* One result whose drain value governs the design inbreathing and one
\* result of an input with only the drain line size given.
C13_Witness ==
  /\ calls["a"].pc = "done"
  /\ calls["b"].pc = "done"
  /\ DrainGiven(calls["a"].input)
  /\ calls["a"].result.drainInbreathing
       > calls["a"].result.normalVenting.inbreathing.total
  /\ calls["a"].result.summary.designInbreathing = calls["a"].result.drainInbreathing
  /\ calls["b"].input.drainLineSize # undefined
  /\ calls["b"].input.maxHeightAboveDrain = undefined
  /\ calls["b"].result.drainInbreathing = undefined

\* C14: capacityExceedsTable is set exactly when maxTankVolume exceeds
\* 30000 m3; undergroundTank exactly when the environmental factor is 0,
\* which is exactly when the configuration is UNDERGROUND; hexaneDefaults
\* exactly when at least one of latentHeat, relievingTemperature and
\* molecularMass is unspecified, so that a Hexane reference fluid implies
\* hexaneDefaults.
C14_Warnings ==
  \A c \in Calls : calls[c].pc = "done" =>
    LET input  == calls[c].input
        result == calls[c].result
    IN  /\ result.warnings.capacityExceedsTable <=> result.derived.maxTankVolume > 30000
        /\ result.warnings.undergroundTank
             <=> result.emergencyVenting.environmentalFactor = 0
        /\ result.warnings.undergroundTank <=> input.tankConfiguration = "UNDERGROUND"
        /\ result.warnings.hexaneDefaults
             <=> \/ input.latentHeat = undefined
                 \/ input.relievingTemperature = undefined
                 \/ input.molecularMass = undefined
        /\ result.emergencyVenting.referenceFluid = "Hexane"
             => result.warnings.hexaneDefaults

\* A tank of exactly 30000 m3 without the capacity warning next to a tank of
\* 31416 m3 with it.
C14_Witness ==
  /\ calls["a"].pc = "done"
  /\ calls["b"].pc = "done"
  /\ calls["a"].result.derived.maxTankVolume = 30000
  /\ ~calls["a"].result.warnings.capacityExceedsTable
  /\ calls["b"].result.derived.maxTankVolume = 31416
  /\ calls["b"].result.warnings.capacityExceedsTable

\* ========================================================================
\* calculationInputSchema (src/lib/validation/inputSchema.ts)
\* ========================================================================

\* kPag, in tenths
MIN_DESIGN_PRESSURE_KPAG == -1013

MAX_DESIGN_PRESSURE_KPAG == 1034

\* A zod issue; abort tells that the issue ends the parse of the object
\* before its refinement (a value of the wrong type), where the failure of
\* a check (positive, gt, lte, nonnegative) lets the refinement run.
Issue(path, message, abort) == [path |-> path, message |-> message, abort |-> abort]

\* z.number({ error }).<check>(message) on a required field
RequiredNumber(path, value, passes, typeMessage, checkMessage) ==
  IF value = undefined THEN << Issue(path, typeMessage, TRUE) >>
  ELSE IF ~passes THEN << Issue(path, checkMessage, FALSE) >>
  ELSE << >>

\* z.number({ error }).<check>(message).optional()
OptionalNumber(path, value, passes, checkMessage) ==
  IF value # undefined /\ ~passes THEN << Issue(path, checkMessage, FALSE) >>
  ELSE << >>

\* z.nativeEnum / z.enum
EnumMember(path, value, members, message) ==
  IF value \in members THEN << >> ELSE << Issue(path, message, TRUE) >>

\* lines 21-103: the issues of the fields, in the order of the schema's keys
fieldIssues(data) ==
  RequiredNumber("diameter", data.diameter, data.diameter > 0,
                 "Diameter must be a number", "Diameter must be > 0")
  \o RequiredNumber("height", data.height, data.height > 0,
                    "Height must be a number", "Height must be > 0")
  \o RequiredNumber("latitude", data.latitude, data.latitude > 0,
                    "Latitude must be a number", "Latitude must be > 0")
  \o OptionalNumber("latitude", data.latitude, data.latitude <= 900,
                    "Latitude must be <= 90")
  \o RequiredNumber("designPressure", data.designPressure, data.designPressure > 0,
                    "Design pressure must be a number", "Design pressure must be > 0")
  \o EnumMember("tankConfiguration", data.tankConfiguration, TankConfiguration,
                "Invalid tank configuration")
  \o OptionalNumber("insulationThickness", data.insulationThickness,
                    data.insulationThickness > 0, "Insulation thickness must be > 0")
  \o OptionalNumber("insulationConductivity", data.insulationConductivity,
                    data.insulationConductivity > 0, "Insulation conductivity must be > 0")
  \o OptionalNumber("insideHeatTransferCoeff", data.insideHeatTransferCoeff,
                    data.insideHeatTransferCoeff > 0,
                    "Inside heat transfer coefficient must be > 0")
  \o OptionalNumber("insulatedSurfaceArea", data.insulatedSurfaceArea,
                    data.insulatedSurfaceArea >= 0, "Insulated surface area must be >= 0")
  \o RequiredNumber("avgStorageTemp", data.avgStorageTemp, TRUE,
                    "Average storage temperature must be a number", "")
  \o RequiredNumber("vapourPressure", data.vapourPressure, data.vapourPressure >= 0,
                    "Vapour pressure must be a number", "Vapour pressure must be >= 0")
  \o EnumMember("flashBoilingPointType", data.flashBoilingPointType, {"FP", "BP"},
                "Must be 'FP' or 'BP'")
  \o OptionalNumber("latentHeat", data.latentHeat, data.latentHeat > 0,
                    "Latent heat must be > 0")
  \o OptionalNumber("molecularMass", data.molecularMass, data.molecularMass > 0,
                    "Molecular mass must be > 0")
  \o OptionalNumber("drainLineSize", data.drainLineSize, data.drainLineSize > 0,
                    "Drain line size must be > 0")
  \o OptionalNumber("maxHeightAboveDrain", data.maxHeightAboveDrain,
                    data.maxHeightAboveDrain > 0, "Max height above drain must be > 0")
  \o EnumMember("apiEdition", data.apiEdition, ApiEdition,
                "API edition must be '5TH', '6TH', or '7TH'")

\* ctx.addIssue when the condition holds
AddIssueIf(condition, path, message) ==
  IF condition THEN << Issue(path, message, FALSE) >> ELSE << >>

\* superRefine without the rule on the insulation fields.
superRefine_withoutInsulationRule(data) ==
  AddIssueIf(data.designPressure > MAX_DESIGN_PRESSURE_KPAG, "designPressure",
             "Design Pressure over 103.4 kPag")
  \o AddIssueIf(data.drainLineSize # undefined /\ data.maxHeightAboveDrain = undefined,
                "maxHeightAboveDrain", "Required when drain line size is specified")
  \o AddIssueIf(data.maxHeightAboveDrain # undefined /\ data.drainLineSize = undefined,
                "drainLineSize", "Required when max height above drain is specified")

\* lines 104-172: the issues of the refinement, in the order it adds them
superRefine(data) ==
  LET requiresInsulation == data.tankConfiguration \in {"INSULATED_FULL", "INSULATED_PARTIAL"}
  IN  AddIssueIf(data.designPressure > MAX_DESIGN_PRESSURE_KPAG, "designPressure",
                 "Design Pressure over 103.4 kPag")
      \o AddIssueIf(requiresInsulation /\ data.insulationThickness = undefined,
                    "insulationThickness", "Required for insulated tank configurations")
      \o AddIssueIf(requiresInsulation /\ data.insulationConductivity = undefined,
                    "insulationConductivity", "Required for insulated tank configurations")
      \o AddIssueIf(requiresInsulation /\ data.insideHeatTransferCoeff = undefined,
                    "insideHeatTransferCoeff", "Required for insulated tank configurations")
      \o AddIssueIf(/\ data.tankConfiguration = "INSULATED_PARTIAL"
                    /\ data.insulatedSurfaceArea = undefined,
                    "insulatedSurfaceArea", "Required for partially insulated tank (A_inp)")
      \o AddIssueIf(data.drainLineSize # undefined /\ data.maxHeightAboveDrain = undefined,
                    "maxHeightAboveDrain", "Required when drain line size is specified")
      \o AddIssueIf(data.maxHeightAboveDrain # undefined /\ data.drainLineSize = undefined,
                    "drainLineSize", "Required when max height above drain is specified")

\* calculationInputSchema.safeParse(data).error.issues, << >> on success:
\* the refinement runs unless a field has a value of the wrong type.
safeParseIssues(data) ==
  LET fields == fieldIssues(data)
  IN  IF \E i \in 1..Len(fields) : fields[i].abort
      THEN fields
      ELSE fields \o superRefine(data)

\* ========================================================================
\* One application of a geometry or lookup function (specification SpecFn)
\* ========================================================================

\* <<insideHeatTransferCoeff, insulationThickness, insulationConductivity,
\*   insulatedSurfaceArea>>
InsulationFields ==
  {undefined, 57} \X {undefined, 102} \X {undefined, 50} \X {undefined, 0, 5000, 17780}

\* The arguments of computeDerivedGeometry: the reference tank in every
\* configuration with every combination of insulation fields.
DGArgs ==
  { [REF EXCEPT !.tankConfiguration = c,
                !.insideHeatTransferCoeff = f[1],
                !.insulationThickness = f[2],
                !.insulationConductivity = f[3],
                !.insulatedSurfaceArea = f[4]] :
      c \in TankConfiguration, f \in InsulationFields }

\* kPag in tenths: absent, around the full vacuum -101.3, around zero and
\* around the limit 103.4
SchemaDesignPressures ==
  {undefined, -2000, -1014, -1013, -1012, -1, 0, 1, 70, 1013, 1034, 1035, 2000}

\* The values calculationInputSchema parses: the reference tank at every
\* design pressure, in every configuration variant, with no drain, a whole
\* drain and a drain lacking its height.
SchemaArgs ==
  { [MakeInput("7TH", c, d, HexaneFluid, RefGeometry) EXCEPT !.designPressure = dp] :
      dp \in SchemaDesignPressures, c \in ConfigVariants,
      d \in {NoDrain, <<200, 5000>>, <<200, undefined>>} }

\* <<insideHeatTransferCoeff, insulationThicknessMm, insulationConductivity>>
R_inArgs == {1, 57} \X {0, 1, 102} \X {1, 50, 1000}

\* <<totalSurfaceAreaM2, insulatedSurfaceAreaM2, r_in>>
R_inpArgs == {0, 10, 17780} \X {0, 3, 10, 5000, 17780} \X {1, 792, 10000}

ErrEmptyTable == "interpolate: table must not be empty"

\* Tables of distinct ascending keys: two rows, values that fall and rise,
\* equal neighbouring values, one row, and the empty table.
Tables ==
  { << >>,
    << <<5, 42>> >>,
    << <<0, 0>>, <<10, 100>> >>,
    << <<1, 50>>, <<4, 20>>, <<6, 80>> >>,
    << <<2, 7>>, <<3, 7>>, <<9, 10>>, <<12, -5>> >>,
    F_FACTOR_TABLE }

Abscissas == (-1..13) \cup {19, 20, 57, 100, 227, 228}

\* Tables sorted ascending by key whose values never fall or never rise,
\* with equal neighbouring values and steep and flat segments.
MonotoneTables ==
  { << <<0, 0>>, <<10, 100>> >>,
    << <<0, 0>>, <<3, 1>>, <<10, 2>>, <<13, 100>> >>,
    << <<2, 7>>, <<3, 7>>, <<9, 10>>, <<12, 10>> >>,
    << <<1, 90>>, <<4, 20>>, <<6, 20>>, <<11, 3>> >>,
    << <<0, 5>>, <<7, 4>>, <<8, -50>> >>,
    F_FACTOR_TABLE }

\* <<x, x', table>> with x <= x'
MonotoneArgs ==
  LET X == Abscissas \cup {22, 23, 24, 113, 114, 115}
  IN  { a \in X \X X \X MonotoneTables : a[1] <= a[2] }

\* <<config, conductivityWmK, thicknessMm>>
EnvironmentalFactorArgs ==
  TankConfiguration \X {undefined, 1, 50, 1000, 5000} \X {undefined, 25, 102, 300}

\* <<latitude, flashBoilingPointType, flashBoilingPoint, capacityM3>>
CFactorArgs ==
  { <<lat, fp[1], fp[2], cap>> :
      lat \in {420, 421, 580, 581}, fp \in FlashBoilingPoints, cap \in {24, 25, 7916} }

InitFn ==
  /\ now = 0
  /\ post = NULL
  /\ HookUnmounted
  /\ calls = [c \in Calls |-> IdleCall]
  /\ nv = NULL
  /\ ev = NULL
  /\ \/ \E input \in DGArgs :
          app = [fn |-> "computeDerivedGeometry", args |-> input, result |-> NULL]
     \/ \E a \in R_inArgs :
          app = [fn |-> "calcR_in", args |-> a, result |-> NULL]
     \/ \E a \in R_inpArgs :
          app = [fn |-> "calcR_inp", args |-> a, result |-> NULL]
     \/ \E x \in Abscissas : \E table \in Tables :
          app = [fn |-> "interpolate", args |-> <<x, table>>, result |-> NULL]
     \/ \E a \in EnvironmentalFactorArgs :
          app = [fn |-> "getEnvironmentalFactor", args |-> a, result |-> NULL]
     \/ \E a \in CFactorArgs :
          app = [fn |-> "getCFactor", args |-> a, result |-> NULL]
     \/ \E data \in SchemaArgs :
          app = [fn |-> "safeParse", args |-> data, result |-> NULL]
     \/ \E a \in MonotoneArgs :
          app = [fn |-> "interpolate, interpolate", args |-> a, result |-> NULL]

Returned(value) == [error |-> "", value |-> value]

Thrown(error) == [error |-> error, value |-> NULL]

ApplyComputeDerivedGeometry ==
  /\ app.fn = "computeDerivedGeometry"
  /\ app.result = NULL
  /\ app' = [app EXCEPT !.result =
               IF computeDerivedGeometryError(app.args) # ""
               THEN Thrown(computeDerivedGeometryError(app.args))
               ELSE Returned(computeDerivedGeometry(app.args))]
  /\ UNCHANGED <<now, calls, nv, ev, post, hookVars>>

ApplyCalcR_in ==
  /\ app.fn = "calcR_in"
  /\ app.result = NULL
  /\ app' = [app EXCEPT !.result =
               Returned(calcR_in(app.args[1], app.args[2], app.args[3]))]
  /\ UNCHANGED <<now, calls, nv, ev, post, hookVars>>

ApplyCalcR_inp ==
  /\ app.fn = "calcR_inp"
  /\ app.result = NULL
  /\ app' = [app EXCEPT !.result =
               Returned(calcR_inp(app.args[1], app.args[2], app.args[3]))]
  /\ UNCHANGED <<now, calls, nv, ev, post, hookVars>>

ApplyInterpolate ==
  /\ app.fn = "interpolate"
  /\ app.result = NULL
  /\ app' = [app EXCEPT !.result =
               IF interpolateThrows(app.args[2])
               THEN Thrown(ErrEmptyTable)
               ELSE Returned(interpolate(app.args[1], app.args[2]))]
  /\ UNCHANGED <<now, calls, nv, ev, post, hookVars>>

ApplyGetEnvironmentalFactor ==
  /\ app.fn = "getEnvironmentalFactor"
  /\ app.result = NULL
  /\ app' = [app EXCEPT !.result =
               IF getEnvironmentalFactorThrows(app.args[1], app.args[2], app.args[3])
               THEN Thrown(ErrEnvironmentalFactor)
               ELSE Returned(getEnvironmentalFactor(app.args[1], app.args[2], app.args[3]))]
  /\ UNCHANGED <<now, calls, nv, ev, post, hookVars>>

ApplyGetCFactor ==
  /\ app.fn = "getCFactor"
  /\ app.result = NULL
  /\ app' = [app EXCEPT !.result =
               Returned(getCFactor(app.args[1], app.args[2], app.args[3], app.args[4]))]
  /\ UNCHANGED <<now, calls, nv, ev, post, hookVars>>

\* calculationInputSchema.safeParse(data): the value is the list of issues
ApplySafeParse ==
  /\ app.fn = "safeParse"
  /\ app.result = NULL
  /\ app' = [app EXCEPT !.result = Returned(safeParseIssues(app.args))]
  /\ UNCHANGED <<now, calls, nv, ev, post, hookVars>>

\* interpolate applied to two abscissas of one table: the value is the pair
\* of results
ApplyInterpolateTwice ==
  /\ app.fn = "interpolate, interpolate"
  /\ app.result = NULL
  /\ app' = [app EXCEPT !.result =
               IF interpolateThrows(app.args[3])
               THEN Thrown(ErrEmptyTable)
               ELSE Returned(<< interpolate(app.args[1], app.args[3]),
                                interpolate(app.args[2], app.args[3]) >>)]
  /\ UNCHANGED <<now, calls, nv, ev, post, hookVars>>

NextFn ==
  \/ ApplyComputeDerivedGeometry
  \/ ApplyCalcR_in
  \/ ApplyCalcR_inp
  \/ ApplyInterpolate
  \/ ApplyGetEnvironmentalFactor
  \/ ApplyGetCFactor
  \/ ApplySafeParse
  \/ ApplyInterpolateTwice

SpecFn == InitFn /\ [][NextFn]_vars

Applied(fn) == app.fn = fn /\ app.result # NULL

NonInsulated ==
  {"BARE_METAL", "CONCRETE", "WATER_APPLICATION", "DEPRESSURING", "UNDERGROUND",
   "EARTH_COVERED", "IMPOUNDMENT_AWAY", "IMPOUNDMENT"}

\* C15: computeDerivedGeometry selects the reduction factor by the
\* configuration only: 1.0 for each of the eight non-insulated
\* configurations whatever insulation fields the input carries, R_in of the
\* three insulation parameters for INSULATED_FULL whatever the insulated
\* surface area, and R_inp of the total surface area, the insulated surface
\* area and R_in for INSULATED_PARTIAL.
C15_ReductionFactorByConfiguration ==
  (Applied("computeDerivedGeometry") /\ app.result.error = "") =>
    LET input == app.args
        value == app.result.value
        r_in  == calcR_in(input.insideHeatTransferCoeff, input.insulationThickness,
                          input.insulationConductivity)
    IN  /\ input.tankConfiguration \in NonInsulated => value.reductionFactor = 10000
        /\ input.tankConfiguration = "INSULATED_FULL" => value.reductionFactor = r_in
        /\ input.tankConfiguration = "INSULATED_PARTIAL" =>
             value.reductionFactor =
               calcR_inp(value.totalSurfaceArea, input.insulatedSurfaceArea, r_in)

\* A non-insulated tank whose input carries all four insulation fields.
C15_Witness ==
  /\ Applied("computeDerivedGeometry")
  /\ app.args.tankConfiguration = "EARTH_COVERED"
  /\ app.args.insideHeatTransferCoeff = 57
  /\ app.args.insulationThickness = 102
  /\ app.args.insulationConductivity = 50
  /\ app.args.insulatedSurfaceArea = 5000
  /\ app.result.error = ""
  /\ app.result.value.reductionFactor = 10000

\* C16: computeDerivedGeometry throws the insulation-parameters error
\* exactly when the configuration is INSULATED_FULL or INSULATED_PARTIAL and
\* one of insideHeatTransferCoeff, insulationThickness and
\* insulationConductivity is unspecified; it throws the distinct
\* insulated-surface-area error exactly when the configuration is
\* INSULATED_PARTIAL, the three are present and insulatedSurfaceArea is
\* unspecified; it throws nothing else and never for a non-insulated
\* configuration.
C16_GeometryErrors ==
  Applied("computeDerivedGeometry") =>
    LET input == app.args
        insulated == input.tankConfiguration \in {"INSULATED_FULL", "INSULATED_PARTIAL"}
        paramMissing == \/ input.insideHeatTransferCoeff = undefined
                        \/ input.insulationThickness = undefined
                        \/ input.insulationConductivity = undefined
    IN  /\ ErrInsulationParams # ErrInsulatedSurfaceArea
        /\ app.result.error \in {"", ErrInsulationParams, ErrInsulatedSurfaceArea}
        /\ app.result.error = ErrInsulationParams <=> (insulated /\ paramMissing)
        /\ app.result.error = ErrInsulatedSurfaceArea
             <=> /\ input.tankConfiguration = "INSULATED_PARTIAL"
                 /\ ~paramMissing
                 /\ input.insulatedSurfaceArea = undefined
        /\ input.tankConfiguration \in NonInsulated => app.result.error = ""
        /\ app.result.error # "" => app.result.value = NULL

\* A partially insulated tank with both a parameter and the insulated
\* surface area missing: the insulation-parameters error is the one thrown.
C16_Witness ==
  /\ Applied("computeDerivedGeometry")
  /\ app.args.tankConfiguration = "INSULATED_PARTIAL"
  /\ app.args.insulationConductivity = undefined
  /\ app.args.insulatedSurfaceArea = undefined
  /\ app.result.error = ErrInsulationParams

\* C17: calcR_inp throws a division-by-zero error whenever the total surface
\* area is 0 and returns no value then.
C17_ThrowsOnZeroArea ==
  (Applied("calcR_inp") /\ app.args[1] = 0) =>
    /\ app.result.error # ""
    /\ app.result.value = NULL

\* C18: for a positive total area, an insulated area between 0 and the total
\* and R_in in (0, 1], calcR_inp lies in [R_in, 1], is 1 at an insulated area
\* of 0 and R_in at an insulated area equal to the total; calcR_in lies in
\* (0, 1] for a thickness of 0 or more and positive U_i and k, and is 1 at
\* thickness 0.
C18_ReductionFactorRange ==
  /\ ( /\ Applied("calcR_inp")
       /\ app.args[1] > 0
       /\ 0 <= app.args[2] /\ app.args[2] <= app.args[1]
       /\ 0 < app.args[3] /\ app.args[3] <= 10000 )
     => /\ app.result.error = ""
        /\ app.args[3] <= app.result.value
        /\ app.result.value <= 10000
        /\ app.args[2] = 0 => app.result.value = 10000
        /\ app.args[2] = app.args[1] => app.result.value = app.args[3]
  /\ ( /\ Applied("calcR_in")
       /\ app.args[1] > 0 /\ app.args[2] >= 0 /\ app.args[3] > 0 )
     => /\ app.result.error = ""
        /\ 0 < app.result.value
        /\ app.result.value <= 10000
        /\ app.args[2] = 0 => app.result.value = 10000

\* A partial insulation strictly between none and all, with a reduction
\* factor strictly between R_in and 1.
C18_Witness ==
  /\ Applied("calcR_inp")
  /\ app.args = <<17780, 5000, 792>>
  /\ app.result.value > 792
  /\ app.result.value < 10000

SortedAscending(table) ==
  \A i \in 1..(Len(table) - 1) : table[i][1] < table[i + 1][1]

\* C19: for a table sorted ascending by key and x strictly between the
\* first and the last key, interpolate returns
\* y0 + (y1 - y0) / (x1 - x0) * (x - x0) for the adjacent rows (x0, y0),
\* (x1, y1) with x0 <= x < x1; and at the key of any row it returns that
\* row's value.
C19_LinearBetweenRows ==
  (Applied("interpolate") /\ app.result.error = "" /\ SortedAscending(app.args[2])) =>
    LET x     == app.args[1]
        table == app.args[2]
        n     == Len(table)
    IN  /\ (n >= 2 /\ table[1][1] < x /\ x < table[n][1]) =>
             \E i \in 1..(n - 1) :
               /\ table[i][1] <= x
               /\ x < table[i + 1][1]
               /\ app.result.value =
                    table[i][2] + MulDiv(table[i + 1][2] - table[i][2],
                                         x - table[i][1],
                                         table[i + 1][1] - table[i][1])
        /\ \A i \in 1..n : x = table[i][1] => app.result.value = table[i][2]

\* A lookup strictly between the second and the third row of a table whose
\* values fall and rise: 20 + (80 - 20) / (6 - 4) * (5 - 4) = 50.
C19_Witness ==
  /\ Applied("interpolate")
  /\ app.args = <<5, << <<1, 50>>, <<4, 20>>, <<6, 80>> >> >>
  /\ app.result.value = 50

C22_DegenerateTables ==
  Applied("interpolate") =>
    LET x     == app.args[1]
        table == app.args[2]
    IN  /\ Len(table) = 0 =>
             /\ app.result.error = ErrEmptyTable
             /\ app.result.value = NULL
        /\ Len(table) > 0 => app.result.error = ""
        /\ Len(table) = 1 =>
             /\ app.result.error = ""
             /\ app.result.value = table[1][2]

\* A lookup in a single-row table away from its key.
C22_Witness ==
  /\ Applied("interpolate")
  /\ app.args = <<13, << <<5, 42>> >> >>
  /\ app.result.value = 42

\* The fixed factor of a non-insulated configuration, 1/10000.
FixedFactor(config) ==
  CASE config \in {"BARE_METAL", "WATER_APPLICATION", "DEPRESSURING"} -> 10000
    [] config = "UNDERGROUND"                                        -> 0
    [] config \in {"EARTH_COVERED", "CONCRETE"}                      -> 300
    [] config = "IMPOUNDMENT"                                        -> 5000
    [] config = "IMPOUNDMENT_AWAY"                                   -> 3000

C24_CFactor ==
  Applied("getCFactor") =>
    LET lat    == app.args[1]
        fpType == app.args[2]
        fp     == app.args[3]
        cap    == app.args[4]
        lowVol == /\ fp # undefined
                  /\ \/ fpType = "FP" /\ fp >= 378
                     \/ fpType = "BP" /\ fp >= 1490
        band   == IF lat <= 420 THEN 1 ELSE IF lat <= 580 THEN 2 ELSE 3
        small  == <<400, 300, 250>>
        large  == <<650, 500, 400>>
    IN  /\ app.result.error = ""
        /\ (lowVol /\ cap < 25) => app.result.value = small[band]
        /\ ~(lowVol /\ cap < 25) => app.result.value = large[band]
        /\ ~lowVol => \A other \in {24, 25, 7916} :
                        getCFactor(lat, fpType, fp, other) = app.result.value

\* A low-volatility fluid in a tank of exactly 25 m3 at latitude 58: large.
C24_Witness ==
  /\ Applied("getCFactor")
  /\ app.args = <<580, "FP", 378, 25>>
  /\ app.result.value = 500

\* ========================================================================
\* The missing-parameter error of getEnvironmentalFactor within calculate
\* (specification Spec)
\* ========================================================================

\* The call's input is an insulated configuration without its conductivity
\* or without its thickness.
LacksInsulationParameter(c) ==
  /\ calls[c].input # NULL
  /\ IsInsulated(calls[c].input.tankConfiguration)
  /\ \/ calls[c].input.insulationConductivity = undefined
     \/ calls[c].input.insulationThickness = undefined

\* C30: within calculate the missing-parameter error of
\* getEnvironmentalFactor is never raised: an insulated input without its
\* conductivity or thickness fails in the geometry step with the geometry
\* error and no later step runs, and every invocation that reaches the
\* emergency step carries arguments getEnvironmentalFactor accepts.
C30_MissingParameterUnreachable ==
  \A c \in Calls :
    /\ calls[c].error # ErrEnvironmentalFactor
    /\ (LacksInsulationParameter(c) /\ calls[c].pc # "geometry")
         => /\ calls[c].pc = "failed"
            /\ calls[c].error = ErrInsulationParams
            /\ calls[c].steps = <<"geometry">>
    /\ calls[c].pc \in {"normal", "emergency", "drain", "summary", "done"}
         => ~getEnvironmentalFactorThrows(calls[c].input.tankConfiguration,
                                          calls[c].input.insulationConductivity,
                                          calls[c].input.insulationThickness)

\* One invocation of an insulated tank without its thickness has failed in
\* the geometry step while another, fully specified, has passed the
\* emergency step.
C30_Witness ==
  /\ LacksInsulationParameter("a")
  /\ calls["a"].input.insulationThickness = undefined
  /\ calls["a"].pc = "failed"
  /\ calls["b"].pc = "done"
  /\ IsInsulated(calls["b"].input.tankConfiguration)
  /\ calls["b"].emergencyVenting # NULL

\* ========================================================================
\* Properties of calculationInputSchema (specification SpecFn)
\* ========================================================================

\* The issues of a parse whose path is the given field.
pathErrors(issues, path) == SelectSeq(issues, LAMBDA issue : issue.path = path)

\* C25: calculationInputSchema reports no designPressure issue for a design
\* pressure from -101.3 to 103.4 kPag, both included, and exactly one
\* designPressure issue for a design pressure above 103.4 or below -101.3.
C25_DesignPressureRange ==
  (Applied("safeParse") /\ app.args.designPressure # undefined) =>
    LET dp     == app.args.designPressure
        errors == pathErrors(app.result.value, "designPressure")
    IN  IF dp >= MIN_DESIGN_PRESSURE_KPAG /\ dp <= MAX_DESIGN_PRESSURE_KPAG
        THEN Len(errors) = 0
        ELSE Len(errors) = 1

\* ========================================================================
\* POST /api/vent/calculate (src/app/api/vent/calculate/route.ts),
\* specification SpecRoute
\* ========================================================================

\* The error calculate throws for this input, "" when it returns
\* (index.ts:20 and 26).
calculateError(input) ==
  IF computeDerivedGeometryError(input) # "" THEN computeDerivedGeometryError(input)
  ELSE IF getEnvironmentalFactorThrows(input.tankConfiguration,
            input.insulationConductivity, input.insulationThickness)
       THEN ErrEnvironmentalFactor
  ELSE ""

\* The CalculationResult calculate returns for this input at this time
\* (index.ts:18-67).
calculate(input, clock) ==
  LET derived == computeDerivedGeometry(input)
      drainInbreathing ==
        IF input.drainLineSize # undefined /\ input.maxHeightAboveDrain # undefined
        THEN computeDrainInbreathing(input.drainLineSize, input.maxHeightAboveDrain)
        ELSE undefined
  IN  CalculationResult(input, derived, computeNormalVenting(input, derived),
                        computeEmergencyVenting(input, derived), drainInbreathing, clock)

\* crypto.randomUUID()
RequestIds == {"uuid-1", "uuid-2"}

\* m2 in tenths: absent, zero, within the 1778.0 m2 of the reference tank,
\* equal to it and above it
RouteSurfaceAreas == {undefined, 0, 5000, 17780, 20000}

\* The request bodies: one that is not JSON, and the reference tank in the
\* bare and the two insulated configurations with every combination of
\* insulation fields, at a design pressure within and above the limit.
RouteBodies ==
  { [json |-> FALSE, value |-> NULL] }
  \cup
  { [json |-> TRUE,
     value |-> [REF EXCEPT !.tankConfiguration = c,
                           !.designPressure = dp,
                           !.insideHeatTransferCoeff = u,
                           !.insulationThickness = t,
                           !.insulationConductivity = k,
                           !.insulatedSurfaceArea = a]] :
      c \in {"BARE_METAL", "INSULATED_FULL", "INSULATED_PARTIAL"},
      dp \in {1013, 1035},
      u \in {undefined, 57}, t \in {undefined, 102}, k \in {undefined, 50},
      a \in RouteSurfaceAreas }

InitRoute ==
  /\ now = 0
  /\ HookUnmounted
  /\ calls = [c \in Calls |-> IdleCall]
  /\ nv = NULL
  /\ ev = NULL
  /\ app = NULL
  /\ \E body \in RouteBodies :
       post = [pc |-> "json", body |-> body, data |-> NULL, responses |-> << >>,
               calculateRuns |-> 0, escaped |-> ""]

\* NextResponse.json(body, { status }) returned by the handler
Respond(status, body) ==
  [post EXCEPT !.pc = "done",
               !.responses = Append(@, [status |-> status, body |-> body])]

\* lines 18-24: request.json()
ParseBody ==
  /\ post.pc = "json"
  /\ post' = IF ~post.body.json
             THEN Respond(400, [error |-> "Request body must be valid JSON"])
             ELSE [post EXCEPT !.pc = "validate"]
  /\ UNCHANGED <<now, calls, nv, ev, app, hookVars>>

\* lines 26-33: calculationInputSchema.safeParse(body)
Validate ==
  /\ post.pc = "validate"
  /\ LET issues == safeParseIssues(post.body.value)
     IN  post' = IF issues # << >>
                 THEN Respond(400, [error |-> "Validation failed", details |-> issues])
                 ELSE [post EXCEPT !.pc = "crossValidate", !.data = post.body.value]
  /\ UNCHANGED <<now, calls, nv, ev, app, hookVars>>

\* lines 35-50: the insulated surface area against the total surface area;
\* computeDerivedGeometry is called outside any try block
CrossValidate ==
  /\ post.pc = "crossValidate"
  /\ post' =
       IF post.data.insulatedSurfaceArea = undefined
       THEN [post EXCEPT !.pc = "calculate"]
       ELSE IF computeDerivedGeometryError(post.data) # ""
       THEN [post EXCEPT !.pc = "done",
                         !.escaped = computeDerivedGeometryError(post.data)]
       ELSE IF post.data.insulatedSurfaceArea >
                 computeDerivedGeometry(post.data).totalSurfaceArea
       THEN Respond(400, [error |-> "Validation failed",
                          details |-> << [path |-> "insulatedSurfaceArea"] >>])
       ELSE [post EXCEPT !.pc = "calculate"]
  /\ UNCHANGED <<now, calls, nv, ev, app, hookVars>>

\* lines 52-63: calculate(parsed.data) inside the try block
Calculate ==
  /\ post.pc = "calculate"
  /\ \E requestId \in RequestIds :
       post' = [(IF calculateError(post.data) # ""
                 THEN Respond(500, [error |-> calculateError(post.data),
                                    requestId |-> requestId, timestamp |-> now])
                 ELSE Respond(200, calculate(post.data, now)))
                EXCEPT !.calculateRuns = @ + 1]
  /\ UNCHANGED <<now, calls, nv, ev, app, hookVars>>

\* new Date() advances while the request is handled
TickRoute ==
  /\ now < MaxClock
  /\ now' = now + 1
  /\ UNCHANGED <<calls, nv, ev, app, post, hookVars>>

NextRoute ==
  \/ TickRoute
  \/ ParseBody
  \/ Validate
  \/ CrossValidate
  \/ Calculate

SpecRoute == InitRoute /\ [][NextRoute]_vars

\* ========================================================================
\* Properties of POST /api/vent/calculate (specification SpecRoute)
\* ========================================================================

\* The body is an insulated configuration without one of the insulation
\* parameters its configuration requires.
LacksRequiredInsulation(body) ==
  /\ body.json
  /\ \/ /\ IsInsulated(body.value.tankConfiguration)
        /\ \/ body.value.insulationThickness = undefined
           \/ body.value.insulationConductivity = undefined
           \/ body.value.insideHeatTransferCoeff = undefined
     \/ /\ body.value.tankConfiguration = "INSULATED_PARTIAL"
        /\ body.value.insulatedSurfaceArea = undefined

\* C26: the handler answers every request with exactly one response and no
\* exception escapes it; the status is 400 when the body is not JSON or
\* fails validation, in particular for an insulated configuration lacking a
\* required insulation parameter; it is 200 with the CalculationResult of
\* the body when calculate returns, and an error status with the message
\* when calculate throws; calculate runs at most once, and not at all for a
\* rejected body.
C26_OneResponse ==
  /\ post.escaped = ""
  /\ post.calculateRuns <= 1
  /\ Len(post.responses) = (IF post.pc = "done" THEN 1 ELSE 0)
  /\ post.pc = "done" =>
       LET response == post.responses[1]
       IN  /\ response.status \in {200, 400, 500}
           /\ ~post.body.json =>
                response.status = 400 /\ post.calculateRuns = 0
           /\ LacksRequiredInsulation(post.body) =>
                response.status = 400 /\ post.calculateRuns = 0
           /\ (post.body.json /\ post.body.value.designPressure > MAX_DESIGN_PRESSURE_KPAG) =>
                response.status = 400 /\ post.calculateRuns = 0
           /\ response.status = 400 => post.calculateRuns = 0
           /\ response.status = 200 =>
                /\ post.calculateRuns = 1
                /\ \E clock \in 0..now :
                     response.body = calculate(post.body.value, clock)
           /\ response.status = 500 =>
                /\ post.calculateRuns = 1
                /\ response.body.error # ""

\* A partially insulated tank with all its insulation fields has been
\* answered with status 200 after the clock advanced.
C26_Witness ==
  /\ post.pc = "done"
  /\ post.body.json
  /\ post.body.value.tankConfiguration = "INSULATED_PARTIAL"
  /\ post.body.value.insulatedSurfaceArea = 5000
  /\ Len(post.responses) = 1
  /\ post.responses[1].status = 200
  /\ post.calculateRuns = 1
  /\ now > 0

\* ========================================================================
\* useCalculation (src/unnamed/part_013) and the calculator store
\* (src/lib/calculations/index.ts:69-129), specification SpecHook
\* ========================================================================

\* The number of times the user changes the form.
MaxChanges == 3

\* part_013:29-41: the issues of geometrySchema, the fields the derived
\* geometry needs
geometrySchemaIssues(data) ==
  RequiredNumber("diameter", data.diameter, data.diameter > 0, "", "")
  \o RequiredNumber("height", data.height, data.height > 0, "", "")
  \o RequiredNumber("latitude", data.latitude, data.latitude > 0, "", "")
  \o OptionalNumber("latitude", data.latitude, data.latitude <= 900, "")
  \o RequiredNumber("designPressure", data.designPressure, data.designPressure > 0, "", "")
  \o EnumMember("tankConfiguration", data.tankConfiguration, TankConfiguration, "")
  \o OptionalNumber("insulationThickness", data.insulationThickness,
                    data.insulationThickness > 0, "")
  \o OptionalNumber("insulationConductivity", data.insulationConductivity,
                    data.insulationConductivity > 0, "")
  \o OptionalNumber("insideHeatTransferCoeff", data.insideHeatTransferCoeff,
                    data.insideHeatTransferCoeff > 0, "")
  \o OptionalNumber("insulatedSurfaceArea", data.insulatedSurfaceArea,
                    data.insulatedSurfaceArea >= 0, "")

\* part_013:78-92: the derived geometry the immediate effect stores, NULL
\* when the values do not parse or computeDerivedGeometry throws
immediateGeometry(values) ==
  IF geometrySchemaIssues(values) # << >> THEN NULL
  ELSE IF computeDerivedGeometryError(values) # "" THEN NULL
  ELSE computeDerivedGeometry(values)

\* index.ts:112-117; the error is "" where the store holds null
INITIAL_STATE ==
  [derivedGeometry |-> NULL, calculationResult |-> NULL, isLoading |-> FALSE,
   error |-> ""]

\* The values the form takes: two valid ones (a bare tank, a fully
\* insulated tank), an insulated tank without its conductivity and a tank
\* with a design pressure of zero.
FormInputs ==
  { REF,
    MakeInput("7TH", <<"INSULATED_FULL", 102, 50, 57, undefined>>, NoDrain,
              HexaneFluid, RefGeometry),
    MakeInput("7TH", <<"INSULATED_FULL", 102, undefined, 57, undefined>>, NoDrain,
              HexaneFluid, RefGeometry),
    [REF EXCEPT !.designPressure = 0] }

\* The error messages of a response that is not ok: body.error, or the
\* default when the body has none
HttpErrors == {"Validation failed", "Calculation failed - please check your inputs"}

\* The component mounts: useWatch returns the initial values, the immediate
\* effect stores the derived geometry and the debounced effect sets its
\* timer.
InitHook ==
  /\ now = 0
  /\ post = NULL
  /\ calls = [c \in Calls |-> IdleCall]
  /\ nv = NULL
  /\ ev = NULL
  /\ app = NULL
  /\ \E values \in FormInputs :
       /\ formValues = [values |-> values, changes |-> 0]
       /\ timer = [values |-> values, changes |-> 0]
       /\ store = [INITIAL_STATE EXCEPT !.derivedGeometry = immediateGeometry(values)]
  /\ abortRef = 0
  /\ fetches = << >>

Mounted == formValues # NULL

\* A request whose promise is still to be settled and whose controller has
\* not been aborted.
InFlight(i) == fetches[i].phase \in {"fetch", "json"}

\* abortRef.current?.abort(): the promise of the request rejects with an
\* AbortError, which lines 122, 133 and 137 turn into a return that leaves
\* the store alone
Abort(fs, i) ==
  IF i # 0 /\ fs[i].phase \in {"fetch", "json"}
  THEN [fs EXCEPT ![i].phase = "aborted"]
  ELSE fs

\* The user changes a field: both effects run again (lines 92 and 143), the
\* cleanup of the debounced effect clears the timer (line 141) and a new
\* timer is set.
ChangeForm(values) ==
  /\ Mounted
  /\ formValues.changes < MaxChanges
  /\ values # formValues.values
  /\ formValues' = [values |-> values, changes |-> formValues.changes + 1]
  /\ timer' = [values |-> values, changes |-> formValues.changes + 1]
  /\ store' = [store EXCEPT !.derivedGeometry = immediateGeometry(values)]
  /\ UNCHANGED <<now, calls, nv, ev, app, post, abortRef, fetches>>

\* lines 96-113: the form has been idle for DEBOUNCE_MS and the callback of
\* the timer runs up to its first await
FireTimer ==
  /\ timer # NULL
  /\ timer' = NULL
  /\ IF safeParseIssues(timer.values) # << >>
     THEN /\ store' = [store EXCEPT !.error = "", !.calculationResult = NULL]
          /\ UNCHANGED <<abortRef, fetches>>
     ELSE /\ fetches' = Append(Abort(fetches, abortRef),
                          [values |-> timer.values, changes |-> timer.changes,
                           phase |-> "fetch", ok |-> FALSE])
          /\ abortRef' = Len(fetches) + 1
          /\ store' = [store EXCEPT !.isLoading = TRUE, !.error = ""]
  /\ UNCHANGED <<now, calls, nv, ev, app, post, formValues>>

\* lines 115-122: fetch resolves with a response, ok or not
ResolveFetch(i, ok) ==
  /\ fetches[i].phase = "fetch"
  /\ fetches' = [fetches EXCEPT ![i].phase = "json", ![i].ok = ok]
  /\ UNCHANGED <<now, calls, nv, ev, app, post, formValues, timer, abortRef, store>>

\* lines 124-131 and 136-138: response.json() resolves
ResolveJson(i, message) ==
  /\ fetches[i].phase = "json"
  /\ fetches' = [fetches EXCEPT ![i].phase = "settled"]
  /\ store' =
       IF fetches[i].ok
       THEN [store EXCEPT !.calculationResult = calculate(fetches[i].values, now),
                          !.isLoading = FALSE]
       ELSE [store EXCEPT !.error = message, !.calculationResult = NULL,
                          !.isLoading = FALSE]
  /\ UNCHANGED <<now, calls, nv, ev, app, post, formValues, timer, abortRef>>

\* lines 132-138: fetch or response.json() rejects with an error other than
\* an AbortError
RejectFetch(i) ==
  /\ InFlight(i)
  /\ fetches' = [fetches EXCEPT ![i].phase = "settled"]
  /\ store' = [store EXCEPT !.error = "Network error - please try again",
                            !.calculationResult = NULL,
                            !.isLoading = FALSE]
  /\ UNCHANGED <<now, calls, nv, ev, app, post, formValues, timer, abortRef>>

\* lines 141 and 146-150: the component unmounts; the store outlives it
Unmount ==
  /\ Mounted
  /\ formValues' = NULL
  /\ timer' = NULL
  /\ fetches' = Abort(fetches, abortRef)
  /\ UNCHANGED <<now, calls, nv, ev, app, post, abortRef, store>>

NextHook ==
  \/ \E values \in FormInputs : ChangeForm(values)
  \/ FireTimer
  \/ \E i \in 1..Len(fetches), ok \in BOOLEAN : ResolveFetch(i, ok)
  \/ \E i \in 1..Len(fetches), message \in HttpErrors : ResolveJson(i, message)
  \/ \E i \in 1..Len(fetches) : RejectFetch(i)
  \/ Unmount

SpecHook == InitHook /\ [][NextHook]_vars

\* ========================================================================
\* Properties of useCalculation (specification SpecHook)
\* ========================================================================

\* The current form values do not pass calculationInputSchema.
FormInvalid == safeParseIssues(formValues.values) # << >>

\* C27: the outcome of a request is written to the store only while the
\* form still holds the values the request was issued for: whenever a
\* request settles and its outcome reaches the store, no form change has
\* arrived since the request was issued.
C27_NoStaleOutcome ==
  [][\A i \in 1..Len(fetches) :
       (InFlight(i) /\ fetches'[i].phase = "settled")
         => (Mounted /\ fetches[i].changes = formValues.changes)]_vars

\* C28: once the form values have been invalid for the debounce period (the
\* timer set by the last change has fired), calculationResult is null, also
\* after a request issued for earlier valid values has completed.
C28_NullWhileInvalid ==
  (Mounted /\ timer = NULL /\ FormInvalid) => store.calculationResult = NULL

\* C29: isLoading is true exactly while a request that has not been
\* cancelled is in flight.
C29_LoadingWhileInFlight ==
  store.isLoading <=> (\E i \in 1..Len(fetches) : InFlight(i))

\* ========================================================================
\* Monotonicity of interpolate (specification SpecFn)
\* ========================================================================

NonDecreasing(table) ==
  \A i \in 1..(Len(table) - 1) : table[i][2] <= table[i + 1][2]

NonIncreasing(table) ==
  \A i \in 1..(Len(table) - 1) : table[i][2] >= table[i + 1][2]

====
